---- MODULE Spec2Model ----
(***************************************************************************)
(* A model of the jibby JSON-to-BSON streaming decoder.                    *)
(*                                                                         *)
(* The input stream is a sequence of byte tokens: a printable ASCII byte   *)
(* is the one-character string of that byte, any other byte is the token   *)
(* "xHH".  The output buffer is a sequence of integers 0..255.  Buffer     *)
(* offsets are 0-based as in the Go source; TLA+ sequences are 1-based, so *)
(* byte p of a buffer b is b[p+1].                                         *)
(*                                                                         *)
(* The decoder is a recursive-descent parser.  Every Go function is an     *)
(* operator of the same name that takes the decoder-and-buffer record `st` *)
(* and returns it updated; st.err = "" means a nil error.                  *)
(***************************************************************************)
EXTENDS Integers, Sequences, FiniteSets, TLC

\* byte value of every input token: the printable bytes 32..95 and 97..126
\* in order, then the control bytes and the bytes written "xHH"
Ord ==
    LET lo == <<
            " ", "!", "\"", "#", "$", "%", "&", "'", "(", ")", "*", "+",
            ",", "-", ".", "/", "0", "1", "2", "3", "4", "5", "6", "7",
            "8", "9", ":", ";", "<", "=", ">", "?", "@", "A", "B", "C",
            "D", "E", "F", "G", "H", "I", "J", "K", "L", "M", "N", "O",
            "P", "Q", "R", "S", "T", "U", "V", "W", "X", "Y", "Z", "[",
            "\\", "]", "^", "_">>
        hi == <<
            "a", "b", "c", "d", "e", "f", "g", "h", "i", "j", "k", "l",
            "m", "n", "o", "p", "q", "r", "s", "t", "u", "v", "w", "x",
            "y", "z", "{", "|", "}", "~">>
    IN  [c \in {lo[i] : i \in 1..64} |->
            31 + CHOOSE i \in 1..64 : lo[i] = c]
        @@ [c \in {hi[i] : i \in 1..30} |->
            96 + CHOOSE i \in 1..30 : hi[i] = c]
        @@ ("\t" :> 9) @@ ("\n" :> 10) @@ ("\r" :> 13)
        @@ ("x00" :> 0) @@ ("xEF" :> 239) @@ ("xBB" :> 187)
        @@ ("xBF" :> 191) @@ ("xFE" :> 254) @@ ("xFF" :> 255)

(***************************************************************************)
(* Constants of the package.  The file that declares them is not part of   *)
(* the sources at hand; the values are the ones the specification gives    *)
(* (BSON type tags, the empty document literal, the sentinel for "no       *)
(* parent type byte").                                                     *)
(***************************************************************************)
topContainer == -1
emptyType == 0
nullByte == 0
emptyLength == <<0, 0, 0, 0>>
emptyDoc == <<5, 0, 0, 0, 0>>

bsonDouble == 1
bsonString == 2
bsonDocument == 3
bsonArray == 4
bsonBinary == 5
bsonUndefined == 6
bsonObjectID == 7
bsonBoolean == 8
bsonDateTime == 9
bsonNull == 10
bsonRegex == 11
bsonDBPointer == 12
bsonCode == 13
bsonSymbol == 14
bsonCodeWithScope == 15
bsonInt32 == 16
bsonTimestamp == 17
bsonInt64 == 18
bsonDecimal128 == 19
bsonMinKey == 255
bsonMaxKey == 127

doublePeekWidth == 310
int64PeekWidth == 21
uint32PeekWidth == 11

utf8BOM == <<"xEF", "xBB", "xBF">>
utf16BEBOM == <<"xFE", "xFF">>
utf16LEBOM == <<"xFF", "xFE">>
utf32BEBOM == <<"x00", "x00", "xFE", "xFF">>
utf32LEBOM == <<"xFF", "xFE", "x00", "x00">>

\* width of the window convertCString peeks
cstringPeekWidth == 64
\* the depth limit a new decoder starts with
defaultMaxDepth == 200

WS == {" ", "\t", "\n", "\r"}
Digits == {"0", "1", "2", "3", "4", "5", "6", "7", "8", "9"}

Min(a, b) == IF a < b THEN a ELSE b
Max(a, b) == IF a > b THEN a ELSE b

(***************************************************************************)
(* Byte helpers.                                                           *)
(***************************************************************************)
\* the four little-endian bytes of uint32(n), for 0 <= n < 2^31
LE32(n) ==
    <<n % 256, (n \div 256) % 256, (n \div 65536) % 256,
      (n \div 16777216) % 256>>

\* the little-endian uint32 stored at 0-based offset pos of b
ReadLE32(b, pos) ==
    b[pos + 1] + 256 * b[pos + 2] + 65536 * b[pos + 3]
        + 16777216 * b[pos + 4]

OrdSeq(s) == [i \in 1..Len(s) |-> Ord[s[i]]]

\* overwriteTypeByte that leaves the placeholder in place
overwriteTypeByteNoWrite(out, pos, bsonType) == out

overwriteTypeByte(out, pos, bsonType) ==
    IF pos = topContainer THEN out ELSE [out EXCEPT ![pos + 1] = bsonType]

overwriteLength(out, pos, n) ==
    [i \in 1..Len(out) |->
        IF i - 1 >= pos /\ i - 1 <= pos + 3 THEN LE32(n)[i - pos]
        ELSE out[i]]

(***************************************************************************)
(* The decoder-and-buffer record.                                          *)
(*   in, pos        the bufio.Reader: the stream and the bytes consumed    *)
(*   curDepth, maxDepth, extJSONAllowed   Decoder fields                   *)
(*   poolOut        scratch buffers taken from scratchPool, not yet put    *)
(*                  back                                                   *)
(*   out            the output buffer of the running function              *)
(*   err, msg       the error returned ("" is nil) and its message         *)
(*   ch             the byte returned by the last read                     *)
(*   buf            the slice returned by the last peek helper             *)
(* History recorded for the properties, never read by the decoder:         *)
(*   marks          what was written where: containers, keys, cstrings,    *)
(*                  elements                                               *)
(*   vk             the kind of the value just written                     *)
(*   maxSeen        the largest curDepth reached                           *)
(*   sawBrace       an opening brace of a document has been read           *)
(*   endObj         the position where the converted top-level object      *)
(*                  ended, -1 when none was converted                      *)
(*   notExt         for each return of handleExtJSON without a buffer and  *)
(*                  without an error: the bytes it consumed and whether    *)
(*                  it left the output as it was                           *)
(***************************************************************************)
Fail(st, kind, m) == [st EXCEPT !.err = kind, !.msg = m]

\* fmt.Errorf("read error while parsing: %w", err), io.EOF upgraded
newReadError(st, err) ==
    IF err = "EOF" THEN Fail(st, "UnexpectedEOF", "read error while parsing")
    ELSE Fail(st, err, "read error while parsing")

\* parseError only peeks for context; it consumes nothing
parseError(st, m) == Fail(st, "Parse", m)

Mark(k, s, e, t) == [k |-> k, s |-> s, e |-> e, t |-> t]
AddMark(st, k, s, e, t) == [st EXCEPT !.marks = @ \cup {Mark(k, s, e, t)}]
ShiftMarks(ms, off) == {Mark(m.k, m.s + off, m.e + off, m.t) : m \in ms}

Append1(st, b) == [st EXCEPT !.out = Append(@, b)]
AppendAll(st, bs) == [st EXCEPT !.out = @ \o bs]

(***************************************************************************)
(* bufio.Reader                                                            *)
(***************************************************************************)
Remaining(st) == Len(st.in) - st.pos
\* Peek(n): up to n bytes; io.EOF accompanies a short result
Peek(st, n) == SubSeq(st.in, st.pos + 1, Min(st.pos + n, Len(st.in)))
Discard(st, n) == [st EXCEPT !.pos = Min(@ + n, Len(st.in))]
\* UnreadByte, called right after a successful ReadByte
UnreadByte(st) == [st EXCEPT !.pos = @ - 1]
\* ReadByte; err = "EOF" at the end of the stream
ReadByte(st) ==
    IF st.pos >= Len(st.in) THEN [st EXCEPT !.err = "EOF"]
    ELSE [st EXCEPT !.pos = @ + 1, !.ch = st.in[st.pos + 1]]

\* Bind([x \in {e} |-> body]) is body with x naming the value of e: e is
\* computed once, before body
Bind(f) == f[CHOOSE x \in DOMAIN f : TRUE]

\* the 0-based index of the first byte at or after i that satisfies Stop, or
\* Len(buf) when there is none
FirstFrom(buf, i, Stop(_)) ==
    IF \E j \in i..(Len(buf) - 1) : Stop(j)
    THEN CHOOSE j \in i..(Len(buf) - 1) :
            Stop(j) /\ \A k \in i..(j - 1) : ~Stop(k)
    ELSE Len(buf)

\* readAfterWS that does not take a line feed for white space
readAfterWSNoLF(st) ==
    LET NotWS(j) == st.in[j + 1] \notin (WS \ {"\n"})
        k == FirstFrom(st.in, st.pos, NotWS)
    IN  ReadByte([st EXCEPT !.pos = k])

\* the loop of readAfterWS reads bytes up to the first that is not white
\* space
readAfterWS(st) ==
    LET NotWS(j) == st.in[j + 1] \notin WS
        k == FirstFrom(st.in, st.pos, NotWS)
    IN  ReadByte([st EXCEPT !.pos = k])

skipWS(st) ==
    Bind([r \in {readAfterWS(st)} |->
        IF r.err # "" THEN r ELSE UnreadByte(r)])

readCharAfterWS(st, b) ==
    Bind([r \in {readAfterWS(st)} |->
        IF r.err # "" THEN newReadError(r, r.err)
        ELSE IF r.ch # b THEN parseError(r, "expecting char")
        ELSE r])

readNextChar(st, b) ==
    Bind([r \in {ReadByte(st)} |->
        IF r.err # "" THEN newReadError(r, r.err)
        ELSE IF r.ch # b THEN parseError(r, "expecting char")
        ELSE r])

readNameSeparator(st) == readCharAfterWS(st, ":")
readObjectTerminator(st) == readCharAfterWS(st, "}")
readQuoteStart(st) == readCharAfterWS(st, "\"")

\* index (1-based) of the first b in buf, 0 when absent: bytes.IndexByte + 1
IndexByte(buf, b) ==
    IF \E i \in 1..Len(buf) : buf[i] = b
    THEN CHOOSE i \in 1..Len(buf) :
            buf[i] = b /\ \A j \in 1..(i - 1) : buf[j] # b
    ELSE 0

\* the result is left in st.buf
peekBoundedQuote(st, minLen, maxLen) ==
    Bind([buf \in {Peek(st, maxLen)} |->
    Bind([quotePos \in {IndexByte(buf, "\"") - 1} |->
        IF Len(buf) < minLen
        THEN newReadError(st, "UnexpectedEOF")
        ELSE IF quotePos < 0
        THEN parseError(st, "string exceeds expected maximum length")
        ELSE IF quotePos < minLen - 1
        THEN parseError(st, "string shorter than expected minimum length")
        ELSE [st EXCEPT !.buf = SubSeq(buf, 1, quotePos)]])])

readSpecificKey(st, expected) ==
    Bind([r \in {peekBoundedQuote(st, Len(expected) + 1,
                                  Len(expected) + 1)} |->
        IF r.err # "" THEN r
        ELSE IF r.buf # expected THEN parseError(r, "expected key")
        ELSE readNameSeparator(Discard(r, Len(r.buf) + 1))])

(***************************************************************************)
(* Strings                                                                 *)
(***************************************************************************)
HexDigits ==
    ("0" :> 0) @@ ("1" :> 1) @@ ("2" :> 2) @@ ("3" :> 3) @@ ("4" :> 4) @@
    ("5" :> 5) @@ ("6" :> 6) @@ ("7" :> 7) @@ ("8" :> 8) @@ ("9" :> 9) @@
    ("a" :> 10) @@ ("b" :> 11) @@ ("c" :> 12) @@ ("d" :> 13) @@
    ("e" :> 14) @@ ("f" :> 15) @@ ("A" :> 10) @@ ("B" :> 11) @@
    ("C" :> 12) @@ ("D" :> 13) @@ ("E" :> 14) @@ ("F" :> 15)

\* strconv.ParseUint(s, 16, 32) of four bytes: -1 stands for an error
ParseHex4(s) ==
    IF \A i \in 1..4 : s[i] \in DOMAIN HexDigits
    THEN 4096 * HexDigits[s[1]] + 256 * HexDigits[s[2]]
            + 16 * HexDigits[s[3]] + HexDigits[s[4]]
    ELSE -1

\* []byte(string(rune(n))) for n < 65536: the UTF-8 encoding, U+FFFD for a
\* surrogate
RuneBytes(n) ==
    IF n < 128 THEN <<n>>
    ELSE IF n < 2048 THEN <<192 + (n \div 64), 128 + (n % 64)>>
    ELSE IF n >= 55296 /\ n <= 57343 THEN <<239, 191, 189>>
    ELSE <<224 + (n \div 4096), 128 + ((n \div 64) % 64), 128 + (n % 64)>>

SimpleEscapes ==
    ("\"" :> 34) @@ ("\\" :> 92) @@ ("/" :> 47) @@ ("b" :> 8) @@
    ("f" :> 12) @@ ("n" :> 10) @@ ("r" :> 13) @@ ("t" :> 9)

\* The INNER loop of convertCString over one peeked window buf, from 0-based
\* index i.  The bytes up to the next backslash, quote or control character
\* are copied as they are.  The result carries the index reached in st.i,
\* and st.flag is "term" after the closing quote, "more" after a break to
\* peek again, "end" at the end of the window.
RECURSIVE cstringInner(_, _, _)
cstringInner(st0, buf, i0) ==
    LET Special(j) == buf[j + 1] \in {"\\", "\""} \/ Ord[buf[j + 1]] < 32
    IN
    Bind([i \in {FirstFrom(buf, i0, Special)} |->
    Bind([st \in {AppendAll(st0, OrdSeq(SubSeq(buf, i0 + 1, i)))} |->
    IF i >= Len(buf) THEN [st EXCEPT !.i = i, !.flag = "end"]
    ELSE LET c == buf[i + 1] IN
    IF c = "\\" THEN
        IF Len(buf) - i < 2
        THEN [st EXCEPT !.i = i, !.flag = "more", !.charsNeeded = 2]
        ELSE LET e == buf[i + 2] IN
        IF e \in DOMAIN SimpleEscapes
        THEN cstringInner([Append1(st, SimpleEscapes[e])
                             EXCEPT !.charsNeeded = 1], buf, i + 2)
        ELSE IF e = "u" THEN
            IF Len(buf) - i < 6
            THEN [st EXCEPT !.i = i, !.flag = "more", !.charsNeeded = 6]
            ELSE Bind([n \in {ParseHex4(SubSeq(buf, i + 3, i + 6))} |->
                 IF n < 0
                 THEN parseError(Discard(st, i), "converting unicode escape")
                 ELSE cstringInner([AppendAll(st, RuneBytes(n))
                                      EXCEPT !.charsNeeded = 1], buf, i + 6)])
        ELSE parseError(Discard(st, i), "unknown escape")
    ELSE IF c = "\"" THEN [st EXCEPT !.i = i, !.flag = "term"]
    ELSE parseError(Discard(st, i),
                    "control characters not allowed in strings")])])

\* the outer loop of convertCString
RECURSIVE cstringOuter(_)
cstringOuter(st) ==
    Bind([buf \in {Peek(st, cstringPeekWidth)} |->
    IF Len(buf) < st.charsNeeded THEN newReadError(st, "UnexpectedEOF")
    ELSE Bind([r \in {cstringInner(st, buf, 0)} |->
         IF r.err # "" THEN r
         ELSE IF r.flag = "term"
         THEN Append1(Discard(r, r.i + 1), 0)
         ELSE cstringOuter(Discard(r, r.i))])])

convertCString(st) == cstringOuter([st EXCEPT !.charsNeeded = 1])

convertString(st) ==
    Bind([r \in {convertCString(AppendAll(st, emptyLength))} |->
        IF r.err # "" THEN r
        ELSE [r EXCEPT !.out = overwriteLength(@, Len(st.out),
                                    Len(r.out) - Len(st.out) - 4)]])

(***************************************************************************)
(* Literals                                                                *)
(***************************************************************************)
\* convertTrue, convertFalse and convertNull: the rest of the literal
convertLiteral(st, rest, first, bytes) ==
    Bind([buf \in {Peek(st, Len(rest))} |->
    IF Len(buf) < Len(rest) THEN newReadError(st, "EOF")
    ELSE IF buf # rest THEN parseError(st, "expecting literal")
    ELSE AppendAll(Discard(st, Len(rest)), bytes)])

convertTrue(st) == convertLiteral(st, <<"r", "u", "e">>, "t", <<1>>)
convertFalse(st) == convertLiteral(st, <<"a", "l", "s", "e">>, "f", <<0>>)
convertNull(st) == convertLiteral(st, <<"u", "l", "l">>, "n", <<>>)

(***************************************************************************)
(* Numbers                                                                 *)
(***************************************************************************)
NumTerminators == {" ", "\t", "\n", "\r", ",", "]", "}"}

\* The scanning loop of peekNumber over the peeked window: it stops at a
\* terminator, at an underscore and at a decimal point that a byte other
\* than a digit follows.  st.i is the index reached, st.flag is "term" at a
\* terminator and "end" at the end of the window, st.isFloat the float hint.
peekNumberScan(st, buf) ==
    LET BadPoint(j) ==
            buf[j + 1] = "." /\ j < Len(buf) - 1 /\ buf[j + 2] \notin Digits
        Stop(j) == buf[j + 1] \in NumTerminators \cup {"_"} \/ BadPoint(j)
    IN
    Bind([i \in {FirstFrom(buf, 0, Stop)} |->
    Bind([s \in {[st EXCEPT
                    !.i = i,
                    !.isFloat = \E j \in 0..(i - 1) :
                                    buf[j + 1] \in {"e", "E", "."}]} |->
        IF i >= Len(buf) THEN [s EXCEPT !.flag = "end"]
        ELSE IF buf[i + 1] = "."
        THEN parseError(Discard(s, i), "decimal must be followed by digit")
        ELSE IF buf[i + 1] = "_"
        THEN parseError(Discard(s, i), "invalid character in number")
        ELSE [s EXCEPT !.flag = "term"]])])

peekNumberAnyZeros(st) ==
    Bind([buf \in {Peek(st, doublePeekWidth)} |->
    Bind([r \in {peekNumberScan(st, buf)} |->
        IF r.err # "" THEN r
        ELSE IF r.flag # "term"
        THEN IF Len(buf) < doublePeekWidth
             THEN newReadError(r, "UnexpectedEOF")
             ELSE parseError(r, "number too long")
        ELSE
        Bind([all \in {SubSeq(buf, 1, r.i)} |->
        Bind([num \in {IF Len(all) > 1 /\ all[1] = "-" THEN Tail(all)
                       ELSE all} |->
            IF Len(num) = 0 THEN parseError(r, "number not found")
            ELSE IF num[1] \notin Digits
            THEN parseError(r, "invalid character in number")
            ELSE [r EXCEPT !.buf = all]])])])])

\* the slice is left in st.buf and the float hint in st.isFloat
peekNumber(st) ==
    Bind([buf \in {Peek(st, doublePeekWidth)} |->
    Bind([r \in {peekNumberScan(st, buf)} |->
        IF r.err # "" THEN r
        ELSE IF r.flag # "term"
        THEN IF Len(buf) < doublePeekWidth
             THEN newReadError(r, "UnexpectedEOF")
             ELSE parseError(r, "number too long")
        ELSE
        Bind([all \in {SubSeq(buf, 1, r.i)} |->
        Bind([num \in {IF Len(all) > 1 /\ all[1] = "-" THEN Tail(all)
                       ELSE all} |->
            IF Len(num) = 0 THEN parseError(r, "number not found")
            ELSE IF num[1] \notin Digits
            THEN parseError(r, "invalid character in number")
            ELSE IF num[1] = "0" /\ Len(num) > 1
                    /\ num[2] \notin {".", "e", "E"}
            THEN parseError(r, "leading zeros not allowed")
            ELSE [r EXCEPT !.buf = all]])])])])

\* ---- 64-bit integers as little-endian byte sequences ----
\* b * 10 + d over the bytes of b, least significant byte first; the carry
\* out of the last byte is appended, so the result is one byte longer
RECURSIVE MulAdd(_, _, _)
MulAdd(b, m, carry) ==
    IF Len(b) = 0 THEN <<carry>>
    ELSE LET v == Head(b) * m + carry
         IN  <<v % 256>> \o MulAdd(Tail(b), m, v \div 256)

AllZero(b) == \A i \in 1..Len(b) : b[i] = 0

\* the magnitude of a decimal digit string as 9 bytes; over is set when it
\* needs more.  The string is halved so that a long number needs no deep
\* recursion
RECURSIVE DecMag(_, _)
DecMag(digits, acc) ==
    IF Len(digits) = 0 THEN acc
    ELSE IF Len(digits) = 1
    THEN Bind([p \in {MulAdd(acc.mag, 10, Ord[digits[1]] - 48)} |->
            [mag |-> SubSeq(p, 1, 9), over |-> acc.over \/ p[10] # 0]])
    ELSE Bind([h \in {Len(digits) \div 2} |->
         Bind([l \in {DecMag(SubSeq(digits, 1, h), acc)} |->
            DecMag(SubSeq(digits, h + 1, Len(digits)), l)])])

\* two's complement negation of a little-endian byte sequence
RECURSIVE NegBytes(_, _)
NegBytes(b, carry) ==
    IF Len(b) = 0 THEN <<>>
    ELSE LET v == (255 - Head(b)) + carry
         IN  <<v % 256>> \o NegBytes(Tail(b), v \div 256)

\* mag < 2^(8k-1), for a magnitude of 9 bytes
FitsBelow(mag, k) ==
    /\ mag[k] < 128
    /\ \A i \in (k + 1)..Len(mag) : mag[i] = 0
\* mag = 2^(8k-1)
IsPow(mag, k) ==
    /\ mag[k] = 128
    /\ \A i \in 1..Len(mag) : i # k => mag[i] = 0

\* strconv.ParseInt(s, 10, 64): [err, neg, mag]; err is "", "syntax" or
\* "range"
ParseInt64(s) ==
    LET neg == Len(s) > 0 /\ s[1] = "-" IN
    Bind([digits \in {IF Len(s) > 0 /\ s[1] \in {"+", "-"} THEN Tail(s)
                      ELSE s} |->
        IF Len(digits) = 0 \/ \E i \in 1..Len(digits) : digits[i] \notin Digits
        THEN [err |-> "syntax", neg |-> neg, mag |-> <<>>]
        ELSE
        Bind([m \in {DecMag(digits, [mag |-> [i \in 1..9 |-> 0],
                                     over |-> FALSE])} |->
            IF m.over \/ ~(FitsBelow(m.mag, 8) \/ (neg /\ IsPow(m.mag, 8)))
            THEN [err |-> "range", neg |-> neg, mag |-> m.mag]
            ELSE [err |-> "", neg |-> neg, mag |-> m.mag]])])

\* the k little-endian bytes of the two's complement of a parsed integer
IntLE(n, k) ==
    IF n.neg THEN NegBytes(SubSeq(n.mag, 1, k), 1) ELSE SubSeq(n.mag, 1, k)

\* math.MinInt32 <= n <= math.MaxInt32
FitsInt32(n) == FitsBelow(n.mag, 4) \/ (n.neg /\ IsPow(n.mag, 4))

\* ---- strconv.ParseFloat(s, 64) ----
\* Natural numbers of any size are little-endian byte sequences without
\* leading zero bytes; << >> is 0.
BigTrim(b) ==
    LET nz == {i \in 1..Len(b) : b[i] # 0}
    IN  IF nz = {} THEN << >>
        ELSE SubSeq(b, 1, CHOOSE i \in nz : \A j \in nz : j <= i)
\* the bytes of b * m + carry that stand where the bytes of b do, and the
\* carry out of them, for m up to 2^23; the sequence is halved so that a
\* long number needs no deep recursion
RECURSIVE BigMulPart(_, _, _)
BigMulPart(b, m, carry) ==
    IF Len(b) = 0 THEN [lo |-> << >>, carry |-> carry]
    ELSE IF Len(b) = 1
    THEN LET v == b[1] * m + carry
         IN  [lo |-> <<v % 256>>, carry |-> v \div 256]
    ELSE LET h == Len(b) \div 2
             l == BigMulPart(SubSeq(b, 1, h), m, carry)
             r == BigMulPart(SubSeq(b, h + 1, Len(b)), m, l.carry)
         IN  [lo |-> l.lo \o r.lo, carry |-> r.carry]
\* b * m + d
BigMulAdd(b, m, d) ==
    Bind([p \in {BigMulPart(b, m, d)} |->
        LET c == p.carry
        IN  BigTrim(p.lo \o <<c % 256, (c \div 256) % 256,
                              (c \div 65536) % 256, c \div 16777216>>)])
BigAt(b, i) == IF i <= Len(b) THEN b[i] ELSE 0
\* -1, 0 or 1 as a is below, equal to or above b
BigCmp(a, b) ==
    Bind([df \in {{i \in 1..Max(Len(a), Len(b)) :
                        BigAt(a, i) # BigAt(b, i)}} |->
        IF df = {} THEN 0
        ELSE Bind([t \in {CHOOSE i \in df : \A j \in df : j <= i} |->
                IF BigAt(a, t) < BigAt(b, t) THEN -1 ELSE 1])])
\* bytes lo..hi of a - b - borrow and the borrow out of them
RECURSIVE BigSubPart(_, _, _, _, _)
BigSubPart(a, b, lo, hi, borrow) ==
    IF lo > hi THEN [lo |-> << >>, borrow |-> borrow]
    ELSE IF lo = hi
    THEN LET v == a[lo] - BigAt(b, lo) - borrow
         IN  [lo |-> <<(v + 256) % 256>>, borrow |-> IF v < 0 THEN 1 ELSE 0]
    ELSE LET h == (lo + hi) \div 2
             l == BigSubPart(a, b, lo, h, borrow)
             r == BigSubPart(a, b, h + 1, hi, l.borrow)
         IN  [lo |-> l.lo \o r.lo, borrow |-> r.borrow]
\* a - b, for a >= b
BigSub(a, b) == BigTrim(BigSubPart(a, b, 1, Len(a), 0).lo)
\* b * 2^n
BigShl(b, n) ==
    BigTrim([i \in 1..(n \div 8) |-> 0] \o BigMulAdd(b, 2 ^ (n % 8), 0))
\* the number of bits of b
BigBitLen(b) ==
    IF b = << >> THEN 0
    ELSE 8 * (Len(b) - 1)
            + (CHOOSE k \in 1..8 :
                  2 ^ (k - 1) <= b[Len(b)] /\ b[Len(b)] < 2 ^ k)
\* b * 10^n
RECURSIVE BigTimesPow10(_, _)
BigTimesPow10(b, n) ==
    IF b = << >> THEN b
    ELSE IF n <= 6 THEN BigMulAdd(b, 10 ^ n, 0)
    ELSE LET h == BigTimesPow10(b, n \div 2)
         IN  IF Len(h) < 0 THEN h ELSE BigTimesPow10(h, n - (n \div 2))
\* acc followed by the digits ds, read in base m
RECURSIVE BigOfDigits(_, _, _)
BigOfDigits(ds, m, acc) ==
    IF Len(ds) = 0 THEN acc
    ELSE IF Len(ds) = 1 THEN BigMulAdd(acc, m, ds[1])
    ELSE LET h == Len(ds) \div 2
             l == BigOfDigits(SubSeq(ds, 1, h), m, acc)
         IN  IF Len(l) < 0 THEN l
             ELSE BigOfDigits(SubSeq(ds, h + 1, Len(ds)), m, l)

\* the quotient r / d, for r < d * 256^i, a byte at a time and each byte in
\* two halves: the positions of the bits that are set, and the remainder
RECURSIVE BigDivBits(_, _, _)
BigDivBits(r, d, i) ==
    IF i = 0 THEN [bits |-> {}, rem |-> r]
    ELSE
    Bind([t \in {BigShl(d, 8 * (i - 1))} |->
    Bind([hi \in {Cardinality({x \in 1..15 :
                    BigCmp(BigMulAdd(t, 16 * x, 0), r) <= 0})} |->
    Bind([c \in {16 * hi + Cardinality({y \in 1..15 :
                    BigCmp(BigMulAdd(t, 16 * hi + y, 0), r) <= 0})} |->
    Bind([rest \in {BigDivBits(BigSub(r, BigMulAdd(t, c, 0)), d, i - 1)} |->
        [bits |-> rest.bits \cup
                    {8 * (i - 1) + b : b \in {b \in 0..7 :
                                        (c \div (2 ^ b)) % 2 = 1}},
         rem |-> rest.rem]])])])])

\* math.Float64bits of the float64 nearest to n / d (d above 0), ties to
\* even, with the sign given, as 8 little-endian bytes; << >> when the
\* nearest is beyond the largest finite float64
Float64Of(neg, n, d) ==
    IF n = << >> THEN <<0, 0, 0, 0, 0, 0, 0, IF neg THEN 128 ELSE 0>>
    ELSE
    \* the quotient q of n * 2^-k by d has 53 bits, or fewer when k is
    \* held at the exponent of the subnormal numbers
    Bind([k0 \in {BigBitLen(n) - BigBitLen(d) - 53} |->
    Bind([k1 \in {IF BigCmp(BigShl(n, Max(0 - (k0 + 53), 0)),
                            BigShl(d, Max(k0 + 53, 0))) >= 0
                  THEN k0 + 1 ELSE k0} |->
    Bind([k \in {Max(k1, -1074)} |->
    Bind([den \in {BigShl(d, Max(k, 0))} |->
    Bind([q \in {BigDivBits(BigShl(n, Max(0 - k, 0)), den, 7)} |->
    Bind([twice \in {BigCmp(BigShl(q.rem, 1), den)} |->
    \* rounded to the nearest, ties to even
    Bind([m1 \in {IF twice > 0 \/ (twice = 0 /\ 0 \in q.bits)
                  THEN Bind([low \in {CHOOSE j \in 0..53 :
                                /\ j \notin q.bits
                                /\ \A i \in 0..(j - 1) : i \in q.bits} |->
                            (q.bits \ (0..(low - 1))) \cup {low}])
                  ELSE q.bits} |->
    Bind([m \in {IF 53 \in m1 THEN {52} ELSE m1} |->
    Bind([E \in {IF 52 \in m
                 THEN (IF 53 \in m1 THEN k + 1 ELSE k) + 52 + 1023
                 ELSE 0} |->
        LET Bit(i) ==
                IF i < 52 THEN i \in m
                ELSE IF i < 63 THEN (E \div (2 ^ (i - 52))) % 2 = 1
                ELSE neg
            B(j, b) == IF Bit(8 * (j - 1) + b) THEN 2 ^ b ELSE 0
        IN  IF E > 2046 THEN << >>
            ELSE [j \in 1..8 |->
                    B(j, 0) + B(j, 1) + B(j, 2) + B(j, 3) + B(j, 4)
                        + B(j, 5) + B(j, 6) + B(j, 7)]])])])])])])])])])

\* the code of a byte, with that of the small letter for a capital
LowerOrd(c) ==
    Bind([o \in {Ord[c]} |-> IF o \in 65..90 THEN o + 32 ELSE o])

commonPrefixLenIgnoreCase(s, prefix) ==
    LET n == Min(Len(s), Len(prefix))
        Differ(j) == j >= n \/ LowerOrd(s[j + 1]) # Ord[prefix[j + 1]]
    IN  Min(n, FirstFrom(s, 0, Differ))

\* special: the infinities and the NaN of math.NaN().  n is the number of
\* bytes taken.
special(s) ==
    LET none == [ok |-> FALSE, n |-> 0, bits |-> << >>]
        signed == s[1] \in {"+", "-"}
    IN  IF Len(s) = 0 THEN none
        ELSE IF signed \/ s[1] \in {"i", "I"}
        THEN
        Bind([n0 \in {commonPrefixLenIgnoreCase(
                        IF signed THEN Tail(s) ELSE s,
                        <<"i", "n", "f", "i", "n", "i", "t", "y">>)} |->
        Bind([n \in {IF 3 < n0 /\ n0 < 8 THEN 3 ELSE n0} |->
            IF n = 3 \/ n = 8
            THEN [ok |-> TRUE, n |-> n + (IF signed THEN 1 ELSE 0),
                  bits |-> <<0, 0, 0, 0, 0, 0, 240,
                             IF s[1] = "-" THEN 255 ELSE 127>>]
            ELSE none])])
        ELSE IF s[1] \in {"n", "N"}
                /\ commonPrefixLenIgnoreCase(s, <<"n", "a", "n">>) = 3
        THEN [ok |-> TRUE, n |-> 3, bits |-> <<1, 0, 0, 0, 0, 0, 248, 127>>]
        ELSE none

underscoreOK(s) ==
    Bind([t \in {IF Len(s) >= 1 /\ s[1] \in {"-", "+"} THEN Tail(s)
                 ELSE s} |->
    Bind([pre \in {Len(t) >= 2 /\ t[1] = "0"
                    /\ LowerOrd(t[2]) \in {98, 111, 120}} |->
    Bind([hex \in {pre /\ LowerOrd(t[2]) = 120} |->
        LET start == IF pre THEN 2 ELSE 0
            Dig(j) ==
                t[j + 1] \in Digits \/ (hex /\ LowerOrd(t[j + 1]) \in 97..102)
            SawDigit(j) == IF j = start THEN pre ELSE Dig(j - 1)
            SawUnder(j) == j > start /\ t[j] = "_"
        IN  /\ \A j \in start..(Len(t) - 1) :
                  /\ t[j + 1] = "_" => SawDigit(j)
                  /\ (~Dig(j) /\ t[j + 1] # "_") => ~SawUnder(j)
            /\ ~SawUnder(Len(t))])])])

\* the exponent the digits ds write; it stops growing at 10000
RECURSIVE readFloatExp(_, _)
readFloatExp(ds, e) ==
    IF Len(ds) = 0 THEN e
    ELSE readFloatExp(Tail(ds),
                      IF e < 10000 THEN e * 10 + (Ord[Head(ds)] - 48) ELSE e)

\* readFloat: i is the number of bytes taken, digits the values of the
\* digits of the mantissa, and the number read is digits * base^exp with
\* base 2 for a hexadecimal mantissa and 10 otherwise
readFloat(s) ==
    \* the sign and the prefix 0x
    Bind([i0 \in {IF Len(s) > 0 /\ s[1] \in {"+", "-"} THEN 1 ELSE 0} |->
    Bind([hex \in {i0 + 2 < Len(s) /\ s[i0 + 1] = "0"
                    /\ LowerOrd(s[i0 + 2]) = 120} |->
    Bind([i1 \in {IF hex THEN i0 + 2 ELSE i0} |->
    LET IsDigit(c) == c \in Digits \/ (hex /\ LowerOrd(c) \in 97..102)
        Dots(j) == {k \in i1..(j - 1) : s[k + 1] = "."}
        Stop(j) ==
            ~(\/ s[j + 1] = "_"
              \/ IsDigit(s[j + 1])
              \/ (s[j + 1] = "." /\ Dots(j) = {}))
        Val(c) == IF c \in Digits THEN Ord[c] - 48 ELSE LowerOrd(c) - 87
        StopE(j) == s[j + 1] \notin Digits \cup {"_"}
        IsDec(c) == c \in Digits
        bad == [ok |-> FALSE, i |-> 0, neg |-> FALSE, hex |-> FALSE,
                digits |-> << >>, exp |-> 0]
    IN
    \* the digits of the mantissa, with at most one point among them
    Bind([i2 \in {FirstFrom(s, i1, Stop)} |->
    Bind([mant \in {SelectSeq(SubSeq(s, i1 + 1, i2), IsDigit)} |->
    Bind([frac \in {Cardinality({j \in i1..(i2 - 1) :
                        IsDigit(s[j + 1]) /\ \E k \in Dots(i2) : k < j})} |->
    \* the exponent
    Bind([hasExp \in {i2 < Len(s)
                    /\ LowerOrd(s[i2 + 1]) = (IF hex THEN 112 ELSE 101)} |->
    Bind([i4 \in {IF i2 + 1 < Len(s) /\ s[i2 + 2] \in {"+", "-"}
                  THEN i2 + 2 ELSE i2 + 1} |->
    Bind([i5 \in {FirstFrom(s, i4, StopE)} |->
    Bind([e \in {readFloatExp(SelectSeq(SubSeq(s, i4 + 1, i5), IsDec), 0)} |->
    Bind([end \in {IF hasExp THEN i5 ELSE i2} |->
        IF Len(s) = 0 \/ Len(mant) = 0 THEN bad
        ELSE IF hasExp /\ (i4 >= Len(s) \/ s[i4 + 1] \notin Digits) THEN bad
        ELSE IF hex /\ ~hasExp THEN bad
        ELSE IF (\E j \in i1..(end - 1) : s[j + 1] = "_")
                /\ ~underscoreOK(SubSeq(s, 1, end)) THEN bad
        ELSE [ok |-> TRUE, i |-> end, neg |-> s[1] = "-", hex |-> hex,
              digits |-> [j \in 1..Len(mant) |-> Val(mant[j])],
              exp |-> (IF hasExp
                       THEN IF i2 + 1 < Len(s) /\ s[i2 + 2] = "-"
                            THEN 0 - e ELSE e
                       ELSE 0)
                        - (IF hex THEN 4 * frac ELSE frac)]])])])])])])])])
    ])])])

\* strconv.ParseFloat(s, 64) followed by math.Float64bits: << >> when
\* ParseFloat returns an error (bad syntax, or a value out of range)
ParseFloatBits(s) ==
    Bind([sp \in {special(s)} |->
        IF sp.ok THEN IF sp.n = Len(s) THEN sp.bits ELSE << >>
        ELSE
        Bind([r \in {readFloat(s)} |->
            IF ~r.ok \/ r.i # Len(s) THEN << >>
            ELSE
            Bind([n \in {BigOfDigits(r.digits, IF r.hex THEN 16 ELSE 10,
                                     << >>)} |->
                Float64Of(r.neg,
                          IF r.hex THEN BigShl(n, Max(r.exp, 0))
                          ELSE BigTimesPow10(n, Max(r.exp, 0)),
                          IF r.hex THEN BigShl(<<1>>, Max(0 - r.exp, 0))
                          ELSE BigTimesPow10(<<1>>, Max(0 - r.exp, 0)))])])])

convertFloat(st, typeBytePos, buf) ==
    Bind([bits \in {ParseFloatBits(buf)} |->
        IF bits = <<>> THEN parseError(st, "float conversion")
        ELSE [st EXCEPT !.out = overwriteTypeByte(@, typeBytePos, bsonDouble)
                                    \o bits,
                        !.vk = "double"]])

convertIntNoLowerBound(st, typeBytePos, buf) ==
    Bind([n \in {ParseInt64(buf)} |->
        IF n.err = "range" THEN convertFloat(st, typeBytePos, buf)
        ELSE IF n.err # "" THEN parseError(st, "int conversion")
        ELSE IF ~(n.neg \/ FitsInt32(n))
        THEN [st EXCEPT !.out = overwriteTypeByte(@, typeBytePos, bsonInt64)
                                    \o IntLE(n, 8),
                        !.vk = "int64"]
        ELSE [st EXCEPT !.out = overwriteTypeByte(@, typeBytePos, bsonInt32)
                                    \o IntLE(n, 4),
                        !.vk = "int32"]])

convertInt(st, typeBytePos, buf) ==
    Bind([n \in {ParseInt64(buf)} |->
        IF n.err = "range" THEN convertFloat(st, typeBytePos, buf)
        ELSE IF n.err # "" THEN parseError(st, "int conversion")
        ELSE IF ~FitsInt32(n)
        THEN [st EXCEPT !.out = overwriteTypeByte(@, typeBytePos, bsonInt64)
                                    \o IntLE(n, 8),
                        !.vk = "int64"]
        ELSE [st EXCEPT !.out = overwriteTypeByte(@, typeBytePos, bsonInt32)
                                    \o IntLE(n, 4),
                        !.vk = "int32"]])

convertNumber(st, typeBytePos) ==
    Bind([p \in {peekNumber(st)} |->
        IF p.err # "" THEN p
        ELSE Bind([r \in {IF p.isFloat
                          THEN convertFloat(p, typeBytePos, p.buf)
                          ELSE convertInt(p, typeBytePos, p.buf)} |->
                IF r.err # "" THEN r ELSE Discard(r, Len(p.buf))])])

(***************************************************************************)
(* Values, objects and arrays                                              *)
(***************************************************************************)
\* strconv.Itoa for 0 <= n, as output bytes
RECURSIVE Itoa(_)
Itoa(n) == IF n < 10 THEN <<48 + n>> ELSE Itoa(n \div 10) \o <<48 + (n % 10)>>

\* the precomputed keys of the first array elements
arrayKeyLen == 100
arrayKey == [i \in 0..(arrayKeyLen - 1) |-> Itoa(i)]

\* the BSON tag the format prescribes for each kind of value
TagOf ==
    [double |-> 1, string |-> 2, document |-> 3, array |-> 4, binary |-> 5,
     undefined |-> 6, objectID |-> 7, boolean |-> 8, datetime |-> 9,
     null |-> 10, regex |-> 11, dbPointer |-> 12, code |-> 13,
     symbol |-> 14, codeWithScope |-> 15, int32 |-> 16, timestamp |-> 17,
     int64 |-> 18, decimal128 |-> 19, minKey |-> 255, maxKey |-> 127]

SetType(st, pos, bsonType) ==
    [st EXCEPT !.out = overwriteTypeByte(@, pos, bsonType)]
Wrote(st, kind) == [st EXCEPT !.vk = kind]

\* curDepth++ ; the check ; defer curDepth--
Enter(st) ==
    [st EXCEPT !.curDepth = @ + 1, !.maxSeen = Max(@, st.curDepth + 1)]
Leave(st) == [st EXCEPT !.curDepth = @ - 1]

\* Close with the length counted from the start of the buffer
CloseWholeBuffer(st, lengthPos, kind) ==
    Bind([out \in {overwriteLength(Append(st.out, nullByte), lengthPos,
                                   Len(st.out) + 1)} |->
        AddMark([st EXCEPT !.out = out, !.vk = kind],
                kind, lengthPos, Len(out), 0)])

\* Close with the length taken before the terminator is appended
CloseShort(st, lengthPos, kind) ==
    Bind([out \in {Append(overwriteLength(st.out, lengthPos,
                                          Len(st.out) - lengthPos),
                          nullByte)} |->
        AddMark([st EXCEPT !.out = out, !.vk = kind],
                kind, lengthPos, Len(out), 0)])

\* closing a container: the terminator and the length
Close(st, lengthPos, kind) ==
    Bind([out \in {overwriteLength(Append(st.out, nullByte), lengthPos,
                                   Len(st.out) + 1 - lengthPos)} |->
        AddMark([st EXCEPT !.out = out, !.vk = kind],
                kind, lengthPos, Len(out), 0)])

\* handleExtJSON returned h from before, no buffer and no error
NotExt(h, before) ==
    [h EXCEPT !.notExt = @ \cup {[used |-> h.pos - before.pos,
                                   kept |-> h.out = before.out]}]

RECURSIVE convertValue(_, _)
RECURSIVE convertObject(_, _)
RECURSIVE convertArray(_)
RECURSIVE objectLoop(_, _)
RECURSIVE arrayLoop(_, _, _)
RECURSIVE handleExtJSON(_, _)

\* one entry of an object, from after the opening quote of its key: the
\* placeholder type byte, the key, the name separator and the value
objectEntry(st) ==
    LET typeBytePos == Len(st.out) IN
    Bind([k \in {convertCString(Append1(st, emptyType))} |->
        IF k.err # "" THEN k
        ELSE
        Bind([n \in {readNameSeparator(
                        AddMark(k, "key", typeBytePos + 1, Len(k.out), 0))} |->
            IF n.err # "" THEN n
            ELSE
            Bind([v \in {convertValue(n, typeBytePos)} |->
                IF v.err # "" THEN v
                ELSE AddMark(v, "elem", typeBytePos, Len(v.out),
                             TagOf[v.vk])])])])

objectLoop(st, lengthPos) ==
    Bind([r \in {readAfterWS(st)} |->
    IF r.err # "" THEN newReadError(r, r.err)
    ELSE IF r.ch = "," THEN
        Bind([q \in {readAfterWS(r)} |->
        IF q.err # "" THEN newReadError(q, q.err)
        ELSE IF q.ch # "\"" THEN parseError(q, "expecting key")
        ELSE Bind([e \in {objectEntry(q)} |->
             IF e.err # "" THEN e ELSE objectLoop(e, lengthPos)])])
    ELSE IF r.ch = "}" THEN Close(r, lengthPos, "document")
    ELSE parseError(r, "expecting value-separator or end of object")])

\* convertObjectBody that does not look at extJSONAllowed
convertObjectBodyExtAlways(st, outerTypeBytePos) ==
    LET lengthPos == Len(st.out)
        tryExt == outerTypeBytePos # topContainer
    IN
    Bind([r \in {readAfterWS(st)} |->
        IF r.err # "" THEN newReadError(r, r.err)
        ELSE IF r.ch = "}"
        THEN AddMark(Wrote(AppendAll(SetType(r, outerTypeBytePos,
                                             bsonDocument), emptyDoc),
                           "document"),
                     "document", lengthPos, lengthPos + 5, 0)
        ELSE IF r.ch = "\"" THEN
            Bind([h \in {IF tryExt
                         THEN handleExtJSON(
                                [UnreadByte(r) EXCEPT !.handled = FALSE],
                                outerTypeBytePos)
                         ELSE r} |->
                IF tryExt /\ (h.err # "" \/ h.handled) THEN h
                ELSE
                Bind([e \in {objectEntry(
                                SetType(AppendAll(IF tryExt
                                                  THEN ReadByte(NotExt(h,
                                                        UnreadByte(r)))
                                                  ELSE r,
                                                  emptyLength),
                                        outerTypeBytePos, bsonDocument))} |->
                    IF e.err # "" THEN e ELSE objectLoop(e, lengthPos)])])
        ELSE parseError(r, "expecting key or end of object")])

\* convertObject after the depth check
convertObjectBody(st, outerTypeBytePos) ==
    LET lengthPos == Len(st.out)
        tryExt == st.extJSONAllowed /\ outerTypeBytePos # topContainer
    IN
    Bind([r \in {readAfterWS(st)} |->
        IF r.err # "" THEN newReadError(r, r.err)
        ELSE IF r.ch = "}"
        THEN AddMark(Wrote(AppendAll(SetType(r, outerTypeBytePos,
                                             bsonDocument), emptyDoc),
                           "document"),
                     "document", lengthPos, lengthPos + 5, 0)
        ELSE IF r.ch = "\"" THEN
            Bind([h \in {IF tryExt
                         THEN handleExtJSON(
                                [UnreadByte(r) EXCEPT !.handled = FALSE],
                                outerTypeBytePos)
                         ELSE r} |->
                IF tryExt /\ (h.err # "" \/ h.handled) THEN h
                ELSE
                Bind([e \in {objectEntry(
                                SetType(AppendAll(IF tryExt
                                                  THEN ReadByte(NotExt(h,
                                                        UnreadByte(r)))
                                                  ELSE r,
                                                  emptyLength),
                                        outerTypeBytePos, bsonDocument))} |->
                    IF e.err # "" THEN e ELSE objectLoop(e, lengthPos)])])
        ELSE parseError(r, "expecting key or end of object")])

\* convertObject with the depth check off by one
convertObjectStrict(st, outerTypeBytePos) ==
    Bind([s \in {Enter(st)} |->
        IF s.curDepth >= s.maxDepth
        THEN Fail(s, "MaxDepth", "maximum depth exceeded")
        ELSE Leave(convertObjectBody(s, outerTypeBytePos))])

convertObject(st, outerTypeBytePos) ==
    Bind([s \in {Enter(st)} |->
        IF s.curDepth > s.maxDepth
        THEN Fail(s, "MaxDepth", "maximum depth exceeded")
        ELSE Leave(convertObjectBody(s, outerTypeBytePos))])

\* arrayEntry that takes every key from the table of precomputed keys
arrayEntryTableOnly(st, index) ==
    LET typeBytePos == Len(st.out) IN
    Bind([k \in {Append1(AppendAll(Append1(st, emptyType),
                                   arrayKey[index % arrayKeyLen]),
                         nullByte)} |->
    Bind([v \in {convertValue(
                    AddMark(AddMark(k, "key", typeBytePos + 1, Len(k.out),
                                    0),
                            "idx", typeBytePos + 1, Len(k.out), index),
                    typeBytePos)} |->
        IF v.err # "" THEN v
        ELSE AddMark(v, "elem", typeBytePos, Len(v.out), TagOf[v.vk])])])

\* one element of an array: the placeholder type byte, the key and the value
arrayEntry(st, index) ==
    LET typeBytePos == Len(st.out) IN
    Bind([k \in {Append1(AppendAll(Append1(st, emptyType),
                                   IF index < arrayKeyLen
                                   THEN arrayKey[index] ELSE Itoa(index)),
                         nullByte)} |->
    Bind([v \in {convertValue(
                    AddMark(AddMark(k, "key", typeBytePos + 1, Len(k.out),
                                    0),
                            "idx", typeBytePos + 1, Len(k.out), index),
                    typeBytePos)} |->
        IF v.err # "" THEN v
        ELSE AddMark(v, "elem", typeBytePos, Len(v.out), TagOf[v.vk])])])

\* one turn of the loop of convertArray: st.i is the index of the element
\* converted last, and st.flag is "done" once the closing bracket is read
arrayTurn(st, lengthPos) ==
    Bind([index \in {st.i} |->
    Bind([r \in {readAfterWS(st)} |->
    IF r.err # "" THEN newReadError(r, r.err)
    ELSE IF r.ch = "," THEN
        Bind([e \in {arrayEntry(r, index + 1)} |->
            IF e.err # "" THEN e
            ELSE [e EXCEPT !.i = index + 1, !.flag = "loop"]])
    ELSE IF r.ch = "]"
    THEN [Close(r, lengthPos, "array") EXCEPT !.flag = "done"]
    ELSE parseError(r, "expecting value-separator or end of array")])])

\* at most 2^k turns of the loop, one after the other
RECURSIVE arrayTurns(_, _, _)
arrayTurns(st, lengthPos, k) ==
    IF k = 0 THEN arrayTurn(st, lengthPos)
    ELSE Bind([a \in {arrayTurns(st, lengthPos, k - 1)} |->
            IF a.err # "" \/ a.flag = "done" THEN a
            ELSE arrayTurns(a, lengthPos, k - 1)])

\* the turns of the loop in blocks of 1, 2, 4, ... turns, so that a long
\* array does not nest the evaluation as deep as it is long
RECURSIVE arrayBlocks(_, _, _)
arrayBlocks(st, lengthPos, k) ==
    Bind([a \in {arrayTurns(st, lengthPos, k)} |->
        IF a.err # "" \/ a.flag = "done" THEN a
        ELSE arrayBlocks(a, lengthPos, k + 1)])

\* the loop of convertArray, entered after the element of index index
arrayLoop(st, lengthPos, index) ==
    arrayBlocks([st EXCEPT !.i = index, !.flag = "loop"], lengthPos, 0)

\* convertArray after the depth check
convertArrayBody(st) ==
    LET lengthPos == Len(st.out) IN
    Bind([r \in {readAfterWS(AppendAll(st, emptyLength))} |->
        IF r.err # "" THEN newReadError(r, r.err)
        ELSE IF r.ch = "]" THEN Close(r, lengthPos, "array")
        ELSE Bind([e \in {arrayEntry(UnreadByte(r), 0)} |->
             IF e.err # "" THEN e ELSE arrayLoop(e, lengthPos, 0)])])

convertArray(st) ==
    Bind([s \in {Enter(st)} |->
        IF s.curDepth > s.maxDepth
        THEN Fail(s, "MaxDepth", "maximum depth exceeded")
        ELSE Leave(convertArrayBody(s))])

convertValue(st, typeBytePos) ==
    Bind([r \in {readAfterWS(st)} |->
    IF r.err # "" THEN newReadError(r, r.err)
    ELSE IF r.ch = "{" THEN convertObject(r, typeBytePos)
    ELSE IF r.ch = "[" THEN convertArray(SetType(r, typeBytePos, bsonArray))
    ELSE IF r.ch = "t"
    THEN Wrote(convertTrue(SetType(r, typeBytePos, bsonBoolean)), "boolean")
    ELSE IF r.ch = "f"
    THEN Wrote(convertFalse(SetType(r, typeBytePos, bsonBoolean)), "boolean")
    ELSE IF r.ch = "n"
    THEN Wrote(convertNull(SetType(r, typeBytePos, bsonNull)), "null")
    ELSE IF r.ch = "\""
    THEN Wrote(convertString(SetType(r, typeBytePos, bsonString)), "string")
    ELSE IF r.ch \in Digits \cup {"-"}
    THEN convertNumber(UnreadByte(r), typeBytePos)
    ELSE parseError(r, "invalid character")])

(***************************************************************************)
(* Extended JSON                                                           *)
(***************************************************************************)
\* The keys of extended JSON, without their quotes.  They are declared with
\* the other constants of the package.
jsonOID ==
    <<"$", "o", "i", "d">>
jsonCode ==
    <<"$", "c", "o", "d", "e">>
jsonDate ==
    <<"$", "d", "a", "t", "e">>
jsonType ==
    <<"$", "t", "y", "p", "e">>
jsonScope ==
    <<"$", "s", "c", "o", "p", "e">>
jsonRegex ==
    <<"$", "r", "e", "g", "e", "x">>
jsonBinary ==
    <<"$", "b", "i", "n", "a", "r", "y">>
jsonMaxKey ==
    <<"$", "m", "a", "x", "K", "e", "y">>
jsonMinKey ==
    <<"$", "m", "i", "n", "K", "e", "y">>
jsonSymbol ==
    <<"$", "s", "y", "m", "b", "o", "l">>
jsonOptions ==
    <<"$", "o", "p", "t", "i", "o", "n", "s">>
jsonDbPointer ==
    <<"$", "d", "b", "P", "o", "i", "n", "t", "e", "r">>
jsonNumberInt ==
    <<"$", "n", "u", "m", "b", "e", "r", "I", "n", "t">>
jsonTimestamp ==
    <<"$", "t", "i", "m", "e", "s", "t", "a", "m", "p">>
jsonUndefined ==
    <<"$", "u", "n", "d", "e", "f", "i", "n", "e", "d">>
jsonNumberLong ==
    <<"$", "n", "u", "m", "b", "e", "r", "L", "o", "n", "g">>
jsonNumberDouble ==
    <<"$", "n", "u", "m", "b", "e", "r", "D", "o", "u", "b", "l", "e">>
jsonNumberDecimal ==
    <<"$", "n", "u", "m", "b", "e", "r", "D", "e", "c", "i", "m", "a", "l">>
jsonRegularExpression ==
    <<"$", "r", "e", "g", "u", "l", "a", "r", "E", "x", "p", "r", "e", "s",
      "s", "i", "o", "n">>
jsonSubType ==
    <<"s", "u", "b", "T", "y", "p", "e">>
jsonBase64 ==
    <<"b", "a", "s", "e", "6", "4">>
jsonRef ==
    <<"$", "r", "e", "f">>
jsonID ==
    <<"$", "i", "d">>
jsonREpattern ==
    <<"p", "a", "t", "t", "e", "r", "n">>
jsonREoptions ==
    <<"o", "p", "t", "i", "o", "n", "s">>

\* ---- helpers for values built in a buffer of their own ----
\* the running function goes on with output buffer b
WithBuf(st, b) == [st EXCEPT !.out = b, !.marks = {}]
\* back to the buffer of st; what r built is left in tmp
Back(r, st) ==
    [r EXCEPT !.out = st.out, !.marks = st.marks,
              !.tmp = r.out, !.tmpMarks = r.marks]
\* append(out, tmp...) with the history of what tmp holds
AppendTmp(st, bytes, ms) ==
    [st EXCEPT !.out = @ \o bytes,
               !.marks = @ \cup ShiftMarks(ms, Len(st.out))]

\* ---- encoding/hex, over byte values ----
\* the value of a hexadecimal digit, -1 for any other byte
HexVal(b) ==
    IF b >= 48 /\ b <= 57 THEN b - 48
    ELSE IF b >= 65 /\ b <= 70 THEN b - 55
    ELSE IF b >= 97 /\ b <= 102 THEN b - 87
    ELSE -1
HexPairOK(src, k) == HexVal(src[2 * k - 1]) >= 0 /\ HexVal(src[2 * k]) >= 0
HexPair(src, k) == 16 * HexVal(src[2 * k - 1]) + HexVal(src[2 * k])

\* hex.Decode(dst, src) for len(dst) = n.  The pairs are decoded in order:
\* an invalid digit is an error, a valid pair beyond dst is an index out of
\* range.  err is "", "error" or "panic".
hexDecode(n, src) ==
    LET pairs == Len(src) \div 2 IN
    Bind([bad \in {{k \in 1..pairs : ~HexPairOK(src, k)}} |->
    Bind([firstBad \in {IF bad = {} THEN pairs + 1
                        ELSE CHOOSE k \in bad : \A j \in bad : k <= j} |->
        IF firstBad > n + 1
        THEN [err |-> "panic", bytes |-> <<>>]
        ELSE IF bad # {} \/ Len(src) % 2 = 1
        THEN [err |-> "error", bytes |-> <<>>]
        ELSE [err |-> "", bytes |-> [k \in 1..pairs |-> HexPair(src, k)]]])])

\* input is a sequence of byte values
decodeBinarySubType(input) ==
    hexDecode(1, IF Len(input) = 1 THEN <<48, input[1]>> ELSE input)

\* ---- encoding/base64: StdEncoding.WithPadding('=') ----
B64Val(b) ==
    IF b >= 65 /\ b <= 90 THEN b - 65
    ELSE IF b >= 97 /\ b <= 122 THEN b - 71
    ELSE IF b >= 48 /\ b <= 57 THEN b + 4
    ELSE IF b = 43 THEN 62
    ELSE IF b = 47 THEN 63
    ELSE -1

SelectSeqNotNL(s) == SelectSeq(s, LAMBDA b : b \notin {10, 13})

\* the bytes of one quantum of four digits, q[3] and q[4] possibly padding
B64Quantum(q) ==
    Bind([v \in {[i \in 1..4 |-> B64Val(q[i])]} |->
        IF q[3] = 61 THEN <<v[1] * 4 + v[2] \div 16>>
        ELSE IF q[4] = 61
        THEN <<v[1] * 4 + v[2] \div 16, (v[2] % 16) * 16 + v[3] \div 4>>
        ELSE <<v[1] * 4 + v[2] \div 16, (v[2] % 16) * 16 + v[3] \div 4,
               (v[3] % 4) * 64 + v[4]>>])

\* a quantum is well formed: four digits, or a final xx== or xxx=
B64QuantumOK(q, last) ==
    /\ B64Val(q[1]) >= 0
    /\ B64Val(q[2]) >= 0
    /\ \/ B64Val(q[3]) >= 0 /\ B64Val(q[4]) >= 0
       \/ last /\ B64Val(q[3]) >= 0 /\ q[4] = 61
       \/ last /\ q[3] = 61 /\ q[4] = 61

RECURSIVE B64Cat(_, _)
B64Cat(s, n) ==
    IF n = 0 THEN <<>>
    ELSE B64Cat(s, n - 1) \o B64Quantum(SubSeq(s, 4 * n - 3, 4 * n))

\* enc.Decode of src: carriage returns and line feeds are skipped, the rest
\* must be whole quanta of four, padding only at the very end
base64Decode(src) ==
    Bind([s \in {SelectSeqNotNL(src)} |->
        LET n == Len(s) \div 4
        IN  IF Len(s) % 4 # 0
               \/ \E k \in 1..n :
                    ~B64QuantumOK(SubSeq(s, 4 * k - 3, 4 * k), k = n)
            THEN [err |-> "error", bytes |-> <<>>]
            ELSE [err |-> "", bytes |-> B64Cat(s, n)]])

(***************************************************************************)
(* Library conversions of the extended JSON values                         *)
(***************************************************************************)
\* math.IsNaN of the float64 with these bits
IsNaNBits(bits) ==
    /\ bits[8] % 128 = 127
    /\ bits[7] >= 240
    /\ bits[7] > 240 \/ \E i \in 1..6 : bits[i] # 0
\* 0x7FF8000000000000, little-endian
canonicalNaN == <<0, 0, 0, 0, 0, 0, 248, 127>>
\* The sources at hand do not give the width of the window of
\* $numberDecimal; the longest decimal128 literal and its quote fit in 45.
decimalPeekWidth == 45

\* the number as 8 little-endian bytes
BigPad8(b) == [i \in 1..8 |-> BigAt(b, i)]

\* primitive.ParseDecimal128 followed by GetBytes: the low 8 bytes, then the
\* high 8 bytes, each little-endian; << >> on error.  The model covers the
\* literals made of an optional sign, digits, an optional fraction of one
\* digit or more and an optional exponent, with 34 significant digits at
\* most and an exponent the format holds without rounding or clamping, the
\* infinities, NaN, and the strings with a byte no number has, which are
\* errors.  For any other string the operator has no value.
ParseDecimal128(s) ==
    LET neg == Len(s) > 0 /\ s[1] = "-"
        Special(hi) == [i \in 1..15 |-> 0] \o <<hi>>
    IN
    Bind([t \in {IF Len(s) > 0 /\ s[1] \in {"+", "-"} THEN Tail(s)
                 ELSE s} |->
    Bind([low \in {[i \in 1..Len(t) |-> LowerOrd(t[i])]} |->
    IF low = OrdSeq(<<"n", "a", "n">>) THEN Special(124)
    ELSE IF low \in {OrdSeq(<<"i", "n", "f">>),
                     OrdSeq(<<"i", "n", "f", "i", "n", "i", "t", "y">>)}
    THEN Special(IF neg THEN 248 ELSE 120)
    ELSE
    LET NotDigit(j) == t[j + 1] \notin Digits IN
    \* digits up to a, a fraction up to b, an exponent from c up to d
    Bind([a \in {FirstFrom(t, 0, NotDigit)} |->
    Bind([hasDot \in {a < Len(t) /\ t[a + 1] = "."} |->
    Bind([b \in {IF hasDot THEN FirstFrom(t, a + 1, NotDigit) ELSE a} |->
    Bind([hasExp \in {b < Len(t) /\ t[b + 1] \in {"e", "E"}} |->
    Bind([c \in {IF hasExp /\ b + 1 < Len(t) /\ t[b + 2] \in {"+", "-"}
                 THEN b + 2 ELSE b + 1} |->
    Bind([d \in {IF hasExp THEN FirstFrom(t, c, NotDigit) ELSE b} |->
    Bind([fracd \in {IF hasDot THEN SubSeq(t, a + 2, b) ELSE << >>} |->
    Bind([all \in {SubSeq(t, 1, a) \o fracd} |->
    LET NotZero(j) == all[j + 1] # "0" IN
    Bind([sig \in {SubSeq(all, FirstFrom(all, 0, NotZero) + 1, Len(all))} |->
    Bind([ex \in {readFloatExp(SubSeq(t, c + 1, d), 0)} |->
    Bind([E \in {(IF hasExp
                  THEN IF c = b + 2 /\ t[b + 2] = "-" THEN 0 - ex ELSE ex
                  ELSE 0) - Len(fracd) + 6176} |->
        IF /\ a >= 1
           /\ hasDot => b > a + 1
           /\ hasExp => d > c
           /\ d = Len(t)
           /\ Len(sig) <= 34
           /\ E \in 0..12287
        THEN Bind([coef \in {BigOfDigits(
                                [i \in 1..Len(sig) |-> Ord[sig[i]] - 48],
                                10, << >>)} |->
                [i \in 1..14 |-> BigAt(coef, i)]
                    \o <<BigAt(coef, 15) + 2 * (E % 128),
                         (E \div 128) + (IF neg THEN 128 ELSE 0)>>])
        ELSE IF \E i \in 1..Len(s) :
                    s[i] \notin Digits \cup {".", "e", "E", "+", "-"}
        THEN << >>
        ELSE CHOOSE none \in {} : TRUE])])])])])])])])])])])])])

\* parseISO8601toEpochMillis: time.Parse with the layouts
\* 2006-01-02T15:04:05.999Z07:00 and 2006-01-02T15:04:05.999Z0700, then
\* t.Unix()*1e3 + t.Nanosecond()/1e6 as the 8 little-endian bytes of an
\* int64; << >> on error.  For a comma before the fraction and for a zone
\* beyond 23:59 the operator has no value.
parseISO8601toEpochMillis(data) ==
    LET n == Len(data)
        D(i) == data[i] \in Digits
        V(i) == Ord[data[i]] - 48
        NotDigit(j) == data[j + 1] \notin Digits
    IN
    IF ~(/\ n >= 20
         /\ \A i \in {1, 2, 3, 4, 6, 7, 9, 10, 12, 13, 15, 16, 18, 19} : D(i)
         /\ data[5] = "-" /\ data[8] = "-" /\ data[11] = "T"
         /\ data[14] = ":" /\ data[17] = ":")
    THEN << >>
    ELSE IF n >= 21 /\ data[20] = "," /\ D(21)
    THEN CHOOSE none \in {} : TRUE
    ELSE
    \* the fraction ends at f, the zone follows
    Bind([f \in {IF n >= 21 /\ data[20] = "." /\ D(21)
                 THEN FirstFrom(data, 20, NotDigit) ELSE 19} |->
    Bind([zone \in {SubSeq(data, f + 1, n)} |->
    LET ZD(i) == zone[i] \in Digits
        ZV(i) == Ord[zone[i]] - 48
        colon == Len(zone) = 6 /\ zone[1] \in {"+", "-"} /\ ZD(2) /\ ZD(3)
                    /\ zone[4] = ":" /\ ZD(5) /\ ZD(6)
        plain == Len(zone) = 5 /\ zone[1] \in {"+", "-"} /\ ZD(2) /\ ZD(3)
                    /\ ZD(4) /\ ZD(5)
    IN
    IF ~(zone = <<"Z">> \/ colon \/ plain) THEN << >>
    ELSE
    Bind([t \in {[y |-> 1000 * V(1) + 100 * V(2) + 10 * V(3) + V(4),
                  mo |-> 10 * V(6) + V(7), dd |-> 10 * V(9) + V(10),
                  h |-> 10 * V(12) + V(13), mi |-> 10 * V(15) + V(16),
                  sec |-> 10 * V(18) + V(19),
                  millis |-> 100 * (IF 21 <= f THEN V(21) ELSE 0)
                                + 10 * (IF 22 <= f THEN V(22) ELSE 0)
                                + (IF 23 <= f THEN V(23) ELSE 0)]} |->
    Bind([z \in {IF zone = <<"Z">> THEN [h |-> 0, m |-> 0, sign |-> 1]
                 ELSE [h |-> 10 * ZV(2) + ZV(3),
                       m |-> IF Len(zone) = 6 THEN 10 * ZV(5) + ZV(6)
                             ELSE 10 * ZV(4) + ZV(5),
                       sign |-> IF zone[1] = "-" THEN -1 ELSE 1]} |->
    LET leap == t.y % 4 = 0 /\ (t.y % 100 # 0 \/ t.y % 400 = 0)
        daysIn == IF t.mo = 2 THEN IF leap THEN 29 ELSE 28
                  ELSE IF t.mo \in {4, 6, 9, 11} THEN 30 ELSE 31
        off == z.sign * (z.h * 3600 + z.m * 60)
    IN
    IF ~(/\ t.mo \in 1..12 /\ t.dd \in 1..daysIn /\ t.h < 24 /\ t.mi < 60
         /\ t.sec < 60)
    THEN << >>
    ELSE IF z.h > 23 \/ z.m > 59
    THEN CHOOSE none \in {} : TRUE
    ELSE
    \* days since 0000-01-01
    Bind([yy \in {t.y + 400 - (IF t.mo <= 2 THEN 1 ELSE 0)} |->
    Bind([days \in {(yy \div 400) * 146097 - 146097 + (yy % 400) * 365
                        + (yy % 400) \div 4 - (yy % 400) \div 100
                        + (153 * ((t.mo + 9) % 12) + 2) \div 5 + t.dd - 1
                        + 60} |->
    Bind([ms \in {BigMulAdd(
                    BigMulAdd(BigMulAdd(<<1>>, days, 0), 86400,
                              86400 + t.h * 3600 + t.mi * 60 + t.sec - off),
                    1000, t.millis)} |->
    Bind([epoch \in {BigMulAdd(
                        BigMulAdd(BigMulAdd(<<1>>, 719529, 0), 86400, 0),
                        1000, 0)} |->
        IF BigCmp(ms, epoch) >= 0 THEN BigPad8(BigSub(ms, epoch))
        ELSE NegBytes(BigPad8(BigSub(epoch, ms)), 1)])])])])])])])])

\* ---- integers read from the stream ----
\* the slice is left in st.buf
peekInt(st, intWidth) ==
    Bind([buf \in {Peek(st, intWidth)} |->
    LET Term(j) == buf[j + 1] \in NumTerminators IN
    Bind([i \in {FirstFrom(buf, 0, Term)} |->
    Bind([all \in {SubSeq(buf, 1, i)} |->
    Bind([num \in {IF i > 0 /\ all[1] = "-" THEN Tail(all) ELSE all} |->
        IF Len(num) = 0 THEN parseError(st, "number not found")
        ELSE IF num[1] \notin Digits
        THEN parseError(st, "invalid character in number")
        ELSE IF num[1] = "0" /\ Len(num) > 1
        THEN parseError(st, "leading zeros not allowed")
        ELSE IF ~(i < Len(buf))
        THEN IF Len(buf) < intWidth
             THEN newReadError(st, "UnexpectedEOF")
             ELSE parseError(st, "number too long")
        ELSE [st EXCEPT !.buf = all]])])])])

peekUint32(st) ==
    Bind([r \in {peekInt(st, uint32PeekWidth)} |->
        IF r.err # "" THEN r
        ELSE IF r.buf[1] = "-"
        THEN parseError(r, "negative number not allowed")
        ELSE r])

peekInt64(st) == peekInt(st, int64PeekWidth)

\* strconv.ParseUint(s, 10, 32): no sign is accepted
ParseUint32(s) ==
    IF Len(s) = 0 \/ \E i \in 1..Len(s) : s[i] \notin Digits
    THEN [err |-> "syntax", neg |-> FALSE, mag |-> <<>>]
    ELSE Bind([m \in {DecMag(s, [mag |-> [i \in 1..9 |-> 0],
                                 over |-> FALSE])} |->
        IF m.over \/ \E i \in 5..9 : m.mag[i] # 0
        THEN [err |-> "range", neg |-> FALSE, mag |-> m.mag]
        ELSE [err |-> "", neg |-> FALSE, mag |-> m.mag]])

\* strconv.ParseInt(s, 10, 32)
ParseInt32(s) ==
    Bind([n \in {ParseInt64(s)} |->
        IF n.err = "" /\ ~FitsInt32(n) THEN [n EXCEPT !.err = "range"]
        ELSE n])

\* the four little-endian bytes are left in st.tmp
readUint32(st) ==
    Bind([p \in {peekUint32(st)} |-> IF p.err # "" THEN p ELSE
    Bind([n \in {ParseUint32(p.buf)} |->
        IF n.err # "" THEN parseError(p, "uint conversion")
        ELSE [Discard(p, Len(p.buf)) EXCEPT !.tmp = IntLE(n, 4)]])])

\* the eight little-endian bytes are left in st.tmp
readInt64(st) ==
    Bind([p \in {peekInt64(st)} |-> IF p.err # "" THEN p ELSE
    Bind([n \in {ParseInt64(p.buf)} |->
        IF n.err # "" THEN parseError(p, "int conversion")
        ELSE [Discard(p, Len(p.buf)) EXCEPT !.tmp = IntLE(n, 8)]])])

\* ---- the sub-parsers of one key ----
convertOID(st) ==
    Bind([n \in {readNameSeparator(st)} |-> IF n.err # "" THEN n ELSE
    Bind([q \in {readQuoteStart(n)} |-> IF q.err # "" THEN q ELSE
    Bind([buf \in {Peek(q, 25)} |->
        IF Len(buf) < 25 THEN newReadError(q, "EOF")
        ELSE IF buf[25] # "\"" THEN parseError(q, "ill-formed $oid")
        ELSE Bind([h \in {hexDecode(12, OrdSeq(SubSeq(buf, 1, 24)))} |->
            IF h.err # "" THEN parseError(q, "objectID conversion")
            ELSE readObjectTerminator(
                    Wrote(Discard(AppendAll(q, h.bytes), 25),
                          "objectID"))])])])])

convertNumberLong(st) ==
    Bind([n \in {readNameSeparator(st)} |-> IF n.err # "" THEN n ELSE
    Bind([q \in {readQuoteStart(n)} |-> IF q.err # "" THEN q ELSE
    Bind([p \in {peekBoundedQuote(q, 2, 21)} |-> IF p.err # "" THEN p ELSE
    Bind([v \in {ParseInt64(p.buf)} |->
        IF v.err # "" THEN parseError(p, "int conversion")
        ELSE readObjectTerminator(
                Wrote(Discard(AppendAll(p, IntLE(v, 8)), Len(p.buf) + 1),
                      "int64"))])])])])

convertNumberInt(st) ==
    Bind([n \in {readNameSeparator(st)} |-> IF n.err # "" THEN n ELSE
    Bind([q \in {readQuoteStart(n)} |-> IF q.err # "" THEN q ELSE
    Bind([p \in {peekBoundedQuote(q, 2, 12)} |-> IF p.err # "" THEN p ELSE
    Bind([v \in {ParseInt32(p.buf)} |->
        IF v.err # "" THEN parseError(p, "int conversion")
        ELSE readObjectTerminator(
                Wrote(Discard(AppendAll(p, IntLE(v, 4)), Len(p.buf) + 1),
                      "int32"))])])])])

convertMinMaxKey(st) ==
    Bind([n \in {readNameSeparator(st)} |-> IF n.err # "" THEN n ELSE
    Bind([o \in {readCharAfterWS(n, "1")} |-> IF o.err # "" THEN o ELSE
        readObjectTerminator(o)])])

convertSymbol(st) ==
    Bind([n \in {readNameSeparator(st)} |-> IF n.err # "" THEN n ELSE
    Bind([q \in {readCharAfterWS(n, "\"")} |-> IF q.err # "" THEN q ELSE
    Bind([s \in {convertString(q)} |-> IF s.err # "" THEN s ELSE
        readObjectTerminator(Wrote(s, "symbol"))])])])

convertUndefined(st) ==
    Bind([n \in {readNameSeparator(st)} |-> IF n.err # "" THEN n ELSE
    Bind([t \in {readCharAfterWS(n, "t")} |-> IF t.err # "" THEN t ELSE
    Bind([buf \in {Peek(t, 3)} |->
        IF Len(buf) < 3 THEN newReadError(t, "EOF")
        ELSE IF buf # <<"r", "u", "e">> THEN parseError(t, "expected 'true'")
        ELSE readObjectTerminator(Wrote(Discard(t, 3), "undefined"))])])])

\* one key of the $timestamp document, after its opening quote and its
\* letter: the closing quote, the name separator, the number, and the value
\* separator when the other key is still to come
timestampKey(st, sawOther) ==
    Bind([q \in {readNextChar(st, "\"")} |-> IF q.err # "" THEN q ELSE
    Bind([n \in {readNameSeparator(q)} |-> IF n.err # "" THEN n ELSE
    Bind([w \in {skipWS(n)} |-> IF w.err # "" THEN w ELSE
    Bind([u \in {readUint32(w)} |-> IF u.err # "" THEN u ELSE
        IF sawOther THEN u ELSE readCharAfterWS(u, ",")])])])])

\* the loop of convertTimestamp; t and i are the bytes of the two numbers
RECURSIVE timestampLoop(_, _, _, _, _)
timestampLoop(st, sawT, sawI, t, i) ==
    IF sawT /\ sawI
    THEN Bind([r \in {readObjectTerminator(
                          Wrote(AppendAll(st, i \o t), "timestamp"))} |->
             IF r.err # "" THEN r ELSE readObjectTerminator(r)])
    ELSE
    Bind([q \in {readQuoteStart(st)} |-> IF q.err # "" THEN q ELSE
    Bind([c \in {ReadByte(q)} |->
        IF c.err # "" THEN newReadError(c, c.err)
        ELSE IF c.ch \notin {"t", "i"}
        THEN parseError(c, "invalid key for $timestamp document")
        ELSE IF c.ch = "t" /\ sawT THEN parseError(c, "key 't' repeated")
        ELSE IF c.ch = "i" /\ sawI THEN parseError(c, "key 'i' repeated")
        ELSE Bind([u \in {timestampKey(c, sawT \/ sawI)} |->
            IF u.err # "" THEN u
            ELSE IF c.ch = "t" THEN timestampLoop(u, TRUE, sawI, u.tmp, i)
            ELSE timestampLoop(u, sawT, TRUE, t, u.tmp)])])])

convertTimestamp(st) ==
    Bind([n \in {readNameSeparator(st)} |-> IF n.err # "" THEN n ELSE
    Bind([b \in {readCharAfterWS(n, "{")} |-> IF b.err # "" THEN b ELSE
        timestampLoop(b, FALSE, FALSE, <<>>, <<>>)])])

convertDate(st) ==
    Bind([n \in {readNameSeparator(st)} |-> IF n.err # "" THEN n ELSE
    Bind([r \in {readAfterWS(n)} |->
        IF r.err # "" THEN r
        ELSE IF r.ch = "\"" THEN
            Bind([p \in {peekBoundedQuote(r, 21, 48)} |->
                IF p.err # "" THEN p ELSE
            Bind([ms \in {parseISO8601toEpochMillis(p.buf)} |->
                IF ms = <<>> THEN parseError(p, "invalid $date value string")
                ELSE readObjectTerminator(
                        Wrote(AppendAll(Discard(p, Len(p.buf) + 1), ms),
                              "datetime"))])])
        ELSE IF r.ch = "{" THEN
            Bind([q \in {readQuoteStart(r)} |-> IF q.err # "" THEN q ELSE
            Bind([k \in {readSpecificKey(q, jsonNumberLong)} |->
                IF k.err # "" THEN k ELSE
            Bind([v \in {convertNumberLong(UnreadByte(k))} |->
                IF v.err # "" THEN v ELSE
                readObjectTerminator(Wrote(v, "datetime"))])])])
        ELSE IF r.ch \in Digits \cup {"-"} THEN
            Bind([v \in {readInt64(UnreadByte(r))} |->
                IF v.err # "" THEN v ELSE
                readObjectTerminator(Wrote(AppendAll(v, v.tmp),
                                           "datetime"))])
        ELSE parseError(r, "invalid value for $date")])])

convertCode(st, typeBytePos) ==
    Bind([lengthPos \in {Len(st.out)} |->
    Bind([n \in {readNameSeparator(AppendAll(st, emptyLength))} |->
        IF n.err # "" THEN n ELSE
    Bind([q \in {readQuoteStart(n)} |-> IF q.err # "" THEN q ELSE
    Bind([c \in {Back(convertCString(WithBuf(q, <<>>)), q)} |->
        IF c.err # "" THEN c ELSE
    Bind([codeCString \in {c.tmp} |->
    Bind([r \in {readAfterWS(c)} |->
        IF r.err # "" THEN newReadError(r, r.err)
        ELSE IF r.ch = "}" THEN
            Bind([out1 \in {overwriteTypeByte(r.out, typeBytePos, bsonCode)
                                \o codeCString} |->
                [r EXCEPT !.out = overwriteLength(out1, lengthPos,
                                      Len(out1) - lengthPos - 4),
                          !.vk = "code"]])
        ELSE IF r.ch = "," THEN
            Bind([k \in {readQuoteStart(r)} |-> IF k.err # "" THEN k ELSE
            Bind([s \in {readSpecificKey(k, jsonScope)} |->
                IF s.err # "" THEN s ELSE
            Bind([strLengthPos \in {Len(s.out)} |->
            Bind([out1 \in {overwriteTypeByte(s.out, typeBytePos,
                                              bsonCodeWithScope)
                                \o emptyLength \o codeCString} |->
            Bind([out2 \in {overwriteLength(out1, strLengthPos,
                                Len(out1) - strLengthPos - 4)} |->
            Bind([b \in {readCharAfterWS([s EXCEPT !.out = out2], "{")} |->
                IF b.err # "" THEN b ELSE
            Bind([o \in {convertObject(b, topContainer)} |->
                IF o.err # "" THEN o ELSE
                readObjectTerminator(
                    [o EXCEPT !.out = overwriteLength(@, lengthPos,
                                          Len(o.out) - lengthPos),
                              !.vk = "codeWithScope"])])])])])])])])
        ELSE parseError(r, "expected value separator or end of object")
    ])])])])])])

convertScope(st) ==
    Bind([n \in {readNameSeparator(st)} |-> IF n.err # "" THEN n ELSE
    Bind([cwsLengthPos \in {Len(n.out)} |->
    Bind([b \in {readCharAfterWS(AppendAll(n, emptyLength), "{")} |->
        IF b.err # "" THEN b ELSE
    Bind([d \in {Back(convertObject(WithBuf(b, <<>>), topContainer), b)} |->
        IF d.err # "" THEN d ELSE
    Bind([c \in {readCharAfterWS(d, ",")} |-> IF c.err # "" THEN c ELSE
    Bind([q \in {readQuoteStart(c)} |-> IF q.err # "" THEN q ELSE
    Bind([k \in {readSpecificKey(q, jsonCode)} |-> IF k.err # "" THEN k ELSE
    Bind([q2 \in {readQuoteStart(k)} |-> IF q2.err # "" THEN q2 ELSE
    Bind([s \in {convertString(q2)} |-> IF s.err # "" THEN s ELSE
    Bind([w \in {AppendTmp(s, d.tmp, d.tmpMarks)} |->
        [w EXCEPT !.out = overwriteLength(@, cwsLengthPos,
                              Len(w.out) - cwsLengthPos),
                  !.vk = "codeWithScope"]])])])])])])])])])])

\* ---- regular expressions ----
RECURSIVE InsertSorted(_, _)
InsertSorted(s, b) ==
    IF Len(s) = 0 THEN <<b>>
    ELSE IF b < Head(s) THEN <<b>> \o s
    ELSE <<Head(s)>> \o InsertSorted(Tail(s), b)
RECURSIVE SortBytes(_)
SortBytes(s) ==
    IF Len(s) = 0 THEN <<>> ELSE InsertSorted(SortBytes(Tail(s)), Head(s))

\* the bytes of i, l, m, s, u, x
regexOptionLetters == {105, 108, 109, 115, 117, 120}

\* sortOptions sorts opts in place and then validates every byte
sortOptions(opts) ==
    IF \A i \in 1..Len(opts) : opts[i] \in regexOptionLetters
    THEN [err |-> "", bytes |-> SortBytes(opts)]
    ELSE [err |-> "invalid regular expression option",
          bytes |-> SortBytes(opts)]

\* the value of the key "pattern": the cstring is left in st.tmp
rePattern(st, sawOther) ==
    Bind([q \in {readNextChar(Discard(st, Len(st.buf)), "\"")} |->
        IF q.err # "" THEN q ELSE
    Bind([n \in {readNameSeparator(q)} |-> IF n.err # "" THEN n ELSE
    Bind([v \in {readQuoteStart(n)} |-> IF v.err # "" THEN v ELSE
    Bind([c \in {Back(convertCString(WithBuf(v, <<>>)), v)} |->
        IF c.err # "" THEN c ELSE
        IF sawOther THEN c
        ELSE readCharAfterWS(c, ",")])])])])

\* the value of the key "options": the sorted cstring is left in st.tmp
reOptions(st, sawOther) ==
    Bind([q \in {readNextChar(Discard(st, Len(st.buf)), "\"")} |->
        IF q.err # "" THEN q ELSE
    Bind([n \in {readNameSeparator(q)} |-> IF n.err # "" THEN n ELSE
    Bind([v \in {readQuoteStart(n)} |-> IF v.err # "" THEN v ELSE
    Bind([c \in {Back(convertCString(WithBuf(v, <<>>)), v)} |->
        IF c.err # "" THEN c ELSE
    Bind([options \in {c.tmp} |->
    Bind([s \in {sortOptions(SubSeq(options, 1, Len(options) - 1))} |->
        IF Len(options) > 1 /\ s.err # "" THEN parseError(c, s.err)
        ELSE Bind([d \in {[c EXCEPT !.tmp =
                              IF Len(options) > 1
                              THEN s.bytes \o <<options[Len(options)]>>
                              ELSE options]} |->
            IF sawOther THEN d ELSE readCharAfterWS(d, ",")])])])])])])])

\* the cstring bytes at the end of the output, recorded for the properties
AppendCStr(st, bytes) ==
    AddMark(AppendAll(st, bytes), "cstr", Len(st.out),
            Len(st.out) + Len(bytes), 0)

RECURSIVE regularExpressionLoop(_, _, _, _, _)
regularExpressionLoop(st, sawPattern, sawOptions, pattern, options) ==
    IF sawPattern /\ sawOptions
    THEN Bind([r \in {readObjectTerminator(
                Wrote(AppendCStr(AppendCStr(st, pattern), options),
                      "regex"))} |->
             IF r.err # "" THEN r ELSE readObjectTerminator(r)])
    ELSE
    Bind([q \in {readQuoteStart(st)} |-> IF q.err # "" THEN q ELSE
    Bind([k \in {peekBoundedQuote(q, 8, 8)} |-> IF k.err # "" THEN k ELSE
        IF k.buf = jsonREpattern THEN
            IF sawPattern THEN parseError(k, "key 'pattern' repeated")
            ELSE Bind([p \in {rePattern(k, sawOptions)} |->
                IF p.err # "" THEN p ELSE
                      regularExpressionLoop(p, TRUE, sawOptions, p.tmp,
                                            options)])
        ELSE IF k.buf = jsonREoptions THEN
            IF sawOptions THEN parseError(k, "key 'options' repeated")
            ELSE Bind([o \in {reOptions(k, sawPattern)} |->
                IF o.err # "" THEN o ELSE
                      regularExpressionLoop(o, sawPattern, TRUE, pattern,
                                            o.tmp)])
        ELSE parseError(k, "invalid key for $regularExpression document")])])

convertRegularExpression(st) ==
    Bind([n \in {readNameSeparator(st)} |-> IF n.err # "" THEN n ELSE
    Bind([b \in {readCharAfterWS(n, "{")} |-> IF b.err # "" THEN b ELSE
        regularExpressionLoop(b, FALSE, FALSE, <<>>, <<>>)])])

\* ---- binary ----
RECURSIVE convertBase64(_)
convertBase64(st) ==
    Bind([buf0 \in {Peek(st, 64)} |->
        IF Len(buf0) < 1 THEN newReadError(st, "UnexpectedEOF") ELSE
    Bind([quotePos \in {IndexByte(buf0, "\"") - 1} |->
    Bind([buf \in {IF quotePos >= 0 THEN SubSeq(buf0, 1, quotePos)
                   ELSE buf0} |->
    Bind([d \in {IF Len(buf) > 0 THEN base64Decode(OrdSeq(buf))
                 ELSE [err |-> "", bytes |-> <<>>]} |->
        IF d.err # "" THEN parseError(st, "error parsing base64 data") ELSE
    Bind([a \in {IF Len(buf) > 0
                 THEN Discard(AppendAll(st, d.bytes), Len(buf))
                 ELSE st} |->
        IF quotePos >= 0 THEN Discard(a, 1) ELSE convertBase64(a)])])])])])

\* the subtype is left in st.sub
convertBinarySubType(st, subTypeBytePos) ==
    Bind([p \in {peekBoundedQuote(st, 2, 3)} |-> IF p.err # "" THEN p ELSE
    Bind([s \in {decodeBinarySubType(OrdSeq(p.buf))} |->
        IF s.err # "" THEN parseError(p, "error parsing subtype")
        ELSE [Discard(p, Len(p.buf) + 1)
                EXCEPT !.out = overwriteTypeByte(@, subTypeBytePos,
                                                 s.bytes[1]),
                       !.sub = s.bytes[1]]])])

binaryLengthsOuterOnly(out, lengthPos, subType) ==
    overwriteLength(out, lengthPos, Len(out) - lengthPos - 5)


\* the end of convertV2Binary and convertV1Binary: the length of the
\* payload, repeated in front of the payload for subtype 2
binaryLengths(out, lengthPos, subType) ==
    LET binLength == Len(out) - lengthPos - 5
        payloadPos == lengthPos + 5
    IN  IF subType = 2
        THEN overwriteLength(
                SubSeq(out, 1, payloadPos) \o LE32(binLength)
                    \o SubSeq(out, payloadPos + 1, Len(out)),
                lengthPos, binLength + 4)
        ELSE overwriteLength(out, lengthPos, binLength)

v2KeyBase64First(st, isSubType, subTypeBytePos, sawOther) ==
    IF isSubType /\ ~sawOther
    THEN parseError(st, "invalid key for $binary document") ELSE
    Bind([n \in {readNameSeparator(Discard(st, Len(st.buf) + 1))} |->
        IF n.err # "" THEN n ELSE
    Bind([q \in {readQuoteStart(n)} |-> IF q.err # "" THEN q ELSE
    Bind([v \in {IF isSubType THEN convertBinarySubType(q, subTypeBytePos)
         ELSE convertBase64(q)} |-> IF v.err # "" THEN v ELSE
        IF sawOther THEN v ELSE readCharAfterWS(v, ",")])])])

v2Key(st, isSubType, subTypeBytePos, sawOther) ==
    Bind([n \in {readNameSeparator(Discard(st, Len(st.buf) + 1))} |->
        IF n.err # "" THEN n ELSE
    Bind([q \in {readQuoteStart(n)} |-> IF q.err # "" THEN q ELSE
    Bind([v \in {IF isSubType THEN convertBinarySubType(q, subTypeBytePos)
         ELSE convertBase64(q)} |-> IF v.err # "" THEN v ELSE
        IF sawOther THEN v ELSE readCharAfterWS(v, ",")])])])

RECURSIVE v2BinaryLoop(_, _, _, _, _)
v2BinaryLoop(st, lengthPos, sawBase64, sawSubType, subType) ==
    IF sawBase64 /\ sawSubType
    THEN readObjectTerminator(
            [st EXCEPT !.out = binaryLengths(@, lengthPos, subType)])
    ELSE
    Bind([q \in {readQuoteStart(st)} |-> IF q.err # "" THEN q ELSE
    Bind([k \in {peekBoundedQuote(q, 7, 8)} |-> IF k.err # "" THEN k ELSE
        IF k.buf = jsonSubType THEN
            IF sawSubType THEN parseError(k, "subType repeated")
            ELSE Bind([v \in {v2Key(k, TRUE, lengthPos + 4, sawBase64)} |->
                IF v.err # "" THEN v ELSE
                      v2BinaryLoop(v, lengthPos, sawBase64, TRUE, v.sub)])
        ELSE IF k.buf = jsonBase64 THEN
            IF sawBase64 THEN parseError(k, "base64 repeated")
            ELSE Bind([v \in {v2Key(k, FALSE, lengthPos + 4, sawSubType)} |->
                IF v.err # "" THEN v ELSE
                      v2BinaryLoop(v, lengthPos, TRUE, sawSubType, subType)])
        ELSE parseError(k, "invalid key for $binary document")])])

convertV2Binary(st) ==
    v2BinaryLoop(Append1(AppendAll(st, emptyLength), emptyType),
                 Len(st.out), FALSE, FALSE, 0)

convertV1Binary(st) ==
    Bind([lengthPos \in {Len(st.out)} |->
    Bind([p \in {convertBase64(Append1(AppendAll(st, emptyLength),
                                       emptyType))} |->
        IF p.err # "" THEN p ELSE
    Bind([c \in {readCharAfterWS(p, ",")} |-> IF c.err # "" THEN c ELSE
    Bind([q \in {readQuoteStart(c)} |-> IF q.err # "" THEN q ELSE
    Bind([k \in {peekBoundedQuote(q, 6, 6)} |-> IF k.err # "" THEN k ELSE
        IF k.buf # jsonType THEN parseError(k, "expected $type")
        ELSE
        Bind([n \in {readNameSeparator(Discard(k, Len(k.buf) + 1))} |->
            IF n.err # "" THEN n ELSE
        Bind([q2 \in {readQuoteStart(n)} |-> IF q2.err # "" THEN q2 ELSE
        Bind([s \in {convertBinarySubType(q2, lengthPos + 4)} |->
            IF s.err # "" THEN s ELSE
            [s EXCEPT !.out = binaryLengths(@, lengthPos, s.sub)]
        ])])])])])])])])

convertBinary(st) ==
    Bind([n \in {readNameSeparator(st)} |-> IF n.err # "" THEN n ELSE
    Bind([r \in {readAfterWS(n)} |->
        IF r.err # "" THEN newReadError(r, r.err)
        ELSE IF r.ch \notin {"{", "\""}
        THEN parseError(r, "expected object or string")
        ELSE Bind([v \in {IF r.ch = "{" THEN convertV2Binary(r)
                          ELSE convertV1Binary(r)} |->
            IF v.err # "" THEN v
            ELSE readObjectTerminator(Wrote(v, "binary"))])])])

\* ---- $dbPointer ----
\* the value of "$ref": the BSON string is left in st.tmp
dbRef(st, sawOther) ==
    Bind([n \in {readNameSeparator(Discard(st, Len(st.buf) + 1))} |->
        IF n.err # "" THEN n ELSE
    Bind([q \in {readQuoteStart(n)} |-> IF q.err # "" THEN q ELSE
    Bind([r \in {Back(convertString(WithBuf(q, <<>>)), q)} |->
        IF r.err # "" THEN r ELSE
        IF sawOther THEN r ELSE readCharAfterWS(r, ",")])])])

\* the value of "$id", converted into a buffer that starts with its type
\* byte: the bytes after the type byte are left in st.tmp
dbID(st, sawOther) ==
    Bind([n \in {readNameSeparator(Discard(st, Len(st.buf) + 1))} |->
        IF n.err # "" THEN n ELSE
    Bind([v \in {Back(convertValue(WithBuf(n, <<emptyType>>), 0), n)} |->
        IF v.err # "" THEN v ELSE
        IF v.tmp[1] # bsonObjectID
        THEN parseError(v, "$dbPointer.$id must be BSON type 7")
        ELSE IF sawOther THEN [v EXCEPT !.tmp = Tail(@)]
        ELSE readCharAfterWS([v EXCEPT !.tmp = Tail(@)], ",")])])

RECURSIVE dbPointerLoop(_, _, _, _, _)
dbPointerLoop(st, sawRef, sawID, ref, id) ==
    IF sawRef /\ sawID
    THEN Bind([r \in {readObjectTerminator(Wrote(AppendAll(st, ref \o id),
                                         "dbPointer"))} |->
             IF r.err # "" THEN r ELSE readObjectTerminator(r)])
    ELSE
    Bind([q \in {readQuoteStart(st)} |-> IF q.err # "" THEN q ELSE
    Bind([k \in {peekBoundedQuote(q, 4, 5)} |-> IF k.err # "" THEN k ELSE
        IF k.buf = jsonRef THEN
            IF sawRef THEN parseError(k, "key '$ref' repeated")
            ELSE Bind([r \in {dbRef(k, sawID)} |-> IF r.err # "" THEN r ELSE
                      dbPointerLoop(r, TRUE, sawID, r.tmp, id)])
        ELSE IF k.buf = jsonID THEN
            IF sawID THEN parseError(k, "key '$id' repeated")
            ELSE Bind([v \in {dbID(k, sawRef)} |-> IF v.err # "" THEN v ELSE
                      dbPointerLoop(v, sawRef, TRUE, ref, v.tmp)])
        ELSE parseError(k, "invalid key for $dbPointer document")])])

convertDBPointer(st) ==
    Bind([n \in {readNameSeparator(st)} |-> IF n.err # "" THEN n ELSE
    Bind([b \in {readCharAfterWS(n, "{")} |-> IF b.err # "" THEN b ELSE
        dbPointerLoop(b, FALSE, FALSE, <<>>, <<>>)])])

\* ---- $numberDouble and $numberDecimal ----
convertNumberDouble(st) ==
    Bind([n \in {readNameSeparator(st)} |-> IF n.err # "" THEN n ELSE
    Bind([q \in {readQuoteStart(n)} |-> IF q.err # "" THEN q ELSE
    Bind([p \in {peekBoundedQuote(q, 2, doublePeekWidth)} |->
        IF p.err # "" THEN p ELSE
    Bind([bits \in {ParseFloatBits(p.buf)} |->
        IF bits = <<>> THEN parseError(p, "float conversion")
        ELSE readObjectTerminator(
                Wrote(Discard(AppendAll(p, IF IsNaNBits(bits)
                                           THEN canonicalNaN ELSE bits),
                              Len(p.buf) + 1),
                      "double"))])])])])

convertNumberDecimal(st) ==
    Bind([n \in {readNameSeparator(st)} |-> IF n.err # "" THEN n ELSE
    Bind([q \in {readQuoteStart(n)} |-> IF q.err # "" THEN q ELSE
    Bind([p \in {peekBoundedQuote(q, 2, decimalPeekWidth)} |->
        IF p.err # "" THEN p ELSE
    Bind([d128 \in {ParseDecimal128(p.buf)} |->
        IF d128 = <<>> THEN parseError(p, "can't parse Decimal128")
        ELSE readObjectTerminator(
                Wrote(Discard(AppendAll(p, d128), Len(p.buf) + 1),
                      "decimal128"))])])])])

\* ---- bson.Raw(scratch).Elements(), of the MongoDB driver ----
\* the int32 at 0-based offset p of d, -1 when it is negative or the bytes
\* are missing
ReadLength(d, p) ==
    IF p + 4 > Len(d) \/ d[p + 4] >= 128 THEN -1 ELSE ReadLE32(d, p)

\* the 0-based offset of the first 0x00 at or after p, -1 when there is none
NulFrom(d, p) ==
    LET IsNul(j) == d[j + 1] = 0 IN
    Bind([k \in {FirstFrom(d, p, IsNul)} |->
        IF k >= Len(d) THEN -1 ELSE k])

\* the length of the value of type t that starts at offset p, -1 when the
\* bytes do not hold one
valueLength(d, p, t) ==
    Bind([l \in {ReadLength(d, p)} |->
    IF t \in {bsonDocument, bsonArray, bsonCodeWithScope}
    THEN l
    ELSE IF t = bsonBinary THEN IF l < 0 THEN -1 ELSE l + 5
    ELSE IF t = bsonBoolean THEN 1
    ELSE IF t = bsonDBPointer THEN IF l < 0 THEN -1 ELSE l + 16
    ELSE IF t \in {bsonDateTime, bsonDouble, bsonInt64, bsonTimestamp}
    THEN 8
    ELSE IF t = bsonDecimal128 THEN 16
    ELSE IF t = bsonInt32 THEN 4
    ELSE IF t \in {bsonString, bsonCode, bsonSymbol}
    THEN IF l < 0 THEN -1 ELSE l + 4
    ELSE IF t \in {bsonMaxKey, bsonMinKey, bsonNull, bsonUndefined} THEN 0
    ELSE IF t = bsonObjectID THEN 12
    ELSE IF t = bsonRegex
    THEN Bind([a \in {NulFrom(d, p)} |->
         Bind([b \in {IF a < 0 THEN -1 ELSE NulFrom(d, a + 1)} |->
             IF b < 0 THEN -1 ELSE b + 1 - p])])
    ELSE -1])

\* ReadElement at offset p: ok, the element's type, key and value bytes and
\* its length
ReadElement(d, p) ==
    Bind([idx \in {IF p + 1 > Len(d) THEN -1 ELSE NulFrom(d, p + 1)} |->
        IF p >= Len(d) \/ idx < 0 THEN [ok |-> FALSE] ELSE
    Bind([vl \in {valueLength(d, idx + 1, d[p + 1])} |->
        IF vl < 0 \/ p + (idx + 1 - p) + vl > Len(d) THEN [ok |-> FALSE]
        ELSE [ok |-> TRUE, type |-> d[p + 1],
              key |-> SubSeq(d, p + 2, idx),
              data |-> SubSeq(d, idx + 2, idx + 1 + vl),
              len |-> (idx + 1 - p) + vl]])])

\* the loop of Elements: the elements read before the first one that is
\* malformed
RECURSIVE ElementsFrom(_, _, _)
ElementsFrom(d, p, length) ==
    IF length <= 1 THEN <<>>
    ELSE Bind([e \in {ReadElement(d, p)} |->
         IF ~e.ok THEN <<>>
         ELSE <<e>> \o ElementsFrom(d, p + e.len, length - e.len)])

Elements(d) ==
    Bind([length \in {ReadLength(d, 0)} |->
        IF length < 0 THEN <<>> ELSE ElementsFrom(d, 4, length - 4)])

\* RawValue.StringValue(): the bytes between the length and the final 0x00
StringValue(data) == SubSeq(data, 5, 4 + ReadLE32(data, 0) - 1)

\* what the two scratch paths look for in the elements: exactly one key a
\* and one key b, both strings, and nothing else
CountKey(elements, k) ==
    Cardinality({i \in 1..Len(elements) : elements[i].key = k})
ValueOf(elements, k) ==
    elements[CHOOSE i \in 1..Len(elements) : elements[i].key = k]
IsPairOfStrings(elements, a, b) ==
    /\ CountKey(elements, a) = 1
    /\ CountKey(elements, b) = 1
    /\ Len(elements) = 2
    /\ ValueOf(elements, a).type = bsonString
    /\ ValueOf(elements, b).type = bsonString

\* ---- the scratch pool ----
Get(st) == [st EXCEPT !.poolOut = @ + 1]
\* Put that keeps the buffer out of the pool
PutNothing(st) == st
Put(st) == [st EXCEPT !.poolOut = @ - 1]

\* append(out, scratch...) as a document
copyScratchNoType(st, typeBytePos, scratch, scratchMarks) ==
    AddMark(Wrote(AppendTmp(st, scratch, scratchMarks), "document"),
            "scratch", Len(st.out), Len(st.out) + Len(scratch), 0)

copyScratch(st, typeBytePos, scratch, scratchMarks) ==
    AddMark(Wrote(AppendTmp(SetType(st, typeBytePos, bsonDocument),
                            scratch, scratchMarks),
                  "document"),
            "scratch", Len(st.out), Len(st.out) + Len(scratch), 0)

\* convertType after the scratch buffer is taken from the pool
convertTypeBody(st, typeBytePos) ==
    Bind([r \in {Back(convertObject(WithBuf(st, <<>>), topContainer), st)} |->
        IF r.err # "" THEN r ELSE
    Bind([scratch \in {r.tmp} |->
    Bind([elements \in {Elements(scratch)} |->
        IF ~IsPairOfStrings(elements, OrdSeq(jsonBinary), OrdSeq(jsonType))
        THEN copyScratch(r, typeBytePos, scratch, r.tmpMarks)
        ELSE
    Bind([lengthPos \in {Len(r.out)} |->
    Bind([subTypeValue \in {ValueOf(elements, OrdSeq(jsonType)).data} |->
    Bind([binaryValue \in {ValueOf(elements, OrdSeq(jsonBinary)).data} |->
    Bind([s \in {SetType(r, typeBytePos, bsonBinary)} |->
    Bind([subType \in {decodeBinarySubType(StringValue(subTypeValue))} |->
        IF subType.err = "panic"
        THEN Fail(s, "Panic", "index out of range")
        ELSE IF subType.err # ""
        THEN Fail(s, "Other", "error decoding binary $type")
        ELSE
    Bind([payload \in {base64Decode(StringValue(binaryValue))} |->
        IF payload.err # ""
        THEN Fail(s, "Other", "error parsing base64 data")
        ELSE
    Bind([binLength \in {Len(payload.bytes)} |->
    Bind([sub \in {IF Len(subType.bytes) = 0 THEN 0
                   ELSE subType.bytes[1]} |->
    Bind([out1 \in {s.out \o emptyLength \o <<sub>>} |->
        [s EXCEPT !.out = overwriteLength(
                              (IF sub = 2 THEN out1 \o LE32(binLength)
                               ELSE out1) \o payload.bytes,
                              lengthPos,
                              IF sub = 2 THEN binLength + 4 ELSE binLength),
                  !.vk = "binary"]])])])])])])])])])])])])

convertType(st, typeBytePos) == Put(convertTypeBody(Get(st), typeBytePos))

\* convertRegexOptionsSlowPath after the scratch buffer is taken
slowPathBody(st, typeBytePos) ==
    Bind([r \in {Back(convertObject(WithBuf(st, <<>>), topContainer), st)} |->
        IF r.err # "" THEN r ELSE
    Bind([scratch \in {r.tmp} |->
    Bind([elements \in {Elements(scratch)} |->
        IF ~IsPairOfStrings(elements, OrdSeq(jsonRegex), OrdSeq(jsonOptions))
        THEN copyScratch(r, typeBytePos, scratch, r.tmpMarks)
        ELSE
    Bind([regexValue \in {ValueOf(elements, OrdSeq(jsonRegex)).data} |->
    Bind([optionsValue \in {ValueOf(elements, OrdSeq(jsonOptions)).data} |->
    Bind([opts \in {StringValue(optionsValue)} |->
    Bind([sorted \in {sortOptions(opts)} |->
    Bind([s \in {AppendCStr(SetType(r, typeBytePos, bsonRegex),
                            StringValue(regexValue) \o <<nullByte>>)} |->
        IF Len(opts) > 1 /\ sorted.err # ""
        THEN Fail(s, "Other", sorted.err)
        ELSE Wrote(AppendCStr(s, (IF Len(opts) > 1 THEN sorted.bytes
                                  ELSE <<>>) \o <<nullByte>>),
                   "regex")])])])])])])])])

convertRegexOptionsSlowPath(st, typeBytePos) ==
    Put(slowPathBody(Get(st), typeBytePos))

\* white space as the class \s of package regexp has it
reSpace == {" ", "\t", "\n", "\r", "\f"}

\* dollarRegexQueryOpRe.Match(buf): the key "$regex" in its quotes, white
\* space, a colon, white space, an opening brace
dollarRegexQueryOpRe(buf) ==
    LET NotSpace(j) == buf[j + 1] \notin reSpace IN
    Bind([key \in {<<"\"">> \o jsonRegex \o <<"\"">>} |->
    Bind([c \in {FirstFrom(buf, Len(key), NotSpace)} |->
    Bind([b \in {FirstFrom(buf, c + 1, NotSpace)} |->
        /\ Len(buf) >= Len(key)
        /\ SubSeq(buf, 1, Len(key)) = key
        /\ c < Len(buf)
        /\ buf[c + 1] = ":"
        /\ b < Len(buf)
        /\ buf[b + 1] = "{"])])])

\* notExtJSON behind the quote that opens the key
notExtJSONBehindQuote(st) == [Discard(st, 1) EXCEPT !.handled = FALSE]

\* "return nil, nil": not extended JSON, nothing has been consumed
notExtJSON(st) == [st EXCEPT !.handled = FALSE]
\* a buffer is returned: the object has been converted
Done(st) == [st EXCEPT !.handled = TRUE]

convertRegex(st, typeBytePos) ==
    IF dollarRegexQueryOpRe(Peek(st, 16)) THEN notExtJSON(st)
    ELSE Done(convertRegexOptionsSlowPath(st, typeBytePos))

convertOptions(st, typeBytePos) ==
    IF dollarRegexQueryOpRe(Peek(st, 48)) THEN notExtJSON(st)
    ELSE Done(convertRegexOptionsSlowPath(st, typeBytePos))

\* the key was recognised: its type is written and the key with its two
\* quotes is discarded
Typed(st, typeBytePos, bsonType, key) ==
    Discard(SetType(st, typeBytePos, bsonType), Len(key) + 2)

handleExtJSON(st, typeBytePos) ==
    Bind([buf \in {Tail(Peek(st, 20))} |->
    Bind([quotePos \in {IndexByte(buf, "\"") - 1} |->
    Bind([key \in {SubSeq(buf, 1, quotePos)} |->
    LET T(bsonType) == Typed(st, typeBytePos, bsonType, key) IN
    IF Len(buf) > 0 /\ buf[1] # "$" THEN notExtJSON(st)
    ELSE IF quotePos < 0 THEN notExtJSON(st)
    ELSE IF key = jsonOID THEN Done(convertOID(T(bsonObjectID)))
    ELSE IF key = jsonCode
    THEN Done(convertCode(Discard(st, 7), typeBytePos))
    ELSE IF key = jsonDate THEN Done(convertDate(T(bsonDateTime)))
    ELSE IF key = jsonType THEN Done(convertType(st, typeBytePos))
    ELSE IF key = jsonScope THEN Done(convertScope(T(bsonCodeWithScope)))
    ELSE IF key = jsonRegex THEN convertRegex(st, typeBytePos)
    ELSE IF key = jsonBinary THEN Done(convertBinary(T(bsonBinary)))
    ELSE IF key = jsonMaxKey
    THEN Done(Wrote(convertMinMaxKey(T(bsonMaxKey)), "maxKey"))
    ELSE IF key = jsonMinKey
    THEN Done(Wrote(convertMinMaxKey(T(bsonMinKey)), "minKey"))
    ELSE IF key = jsonSymbol THEN Done(convertSymbol(T(bsonSymbol)))
    ELSE IF key = jsonOptions THEN convertOptions(st, typeBytePos)
    ELSE IF key = jsonDbPointer THEN Done(convertDBPointer(T(bsonDBPointer)))
    ELSE IF key = jsonNumberInt THEN Done(convertNumberInt(T(bsonInt32)))
    ELSE IF key = jsonTimestamp THEN Done(convertTimestamp(T(bsonTimestamp)))
    ELSE IF key = jsonUndefined THEN Done(convertUndefined(T(bsonUndefined)))
    ELSE IF key = jsonNumberLong THEN Done(convertNumberLong(T(bsonInt64)))
    ELSE IF key = jsonNumberDouble
    THEN Done(convertNumberDouble(T(bsonDouble)))
    ELSE IF key = jsonNumberDecimal
    THEN Done(convertNumberDecimal(T(bsonDecimal128)))
    ELSE IF key = jsonRegularExpression
    THEN Done(convertRegularExpression(T(bsonRegex)))
    ELSE notExtJSON(st)])])])

(***************************************************************************)
(* The decoder                                                             *)
(***************************************************************************)
handleBOM(st) ==
    IF Len(Peek(st, 2)) < 2 THEN st
    ELSE IF Peek(st, 2) \in {utf16BEBOM, utf16LEBOM}
    THEN Fail(st, "BOM", "unsupported byte order mark")
    ELSE IF Len(Peek(st, 3)) < 3 THEN st
    ELSE Bind([s \in {IF Peek(st, 3) = utf8BOM THEN Discard(st, 3)
                      ELSE st} |->
         IF Len(Peek(s, 4)) < 4 THEN s
         ELSE IF Peek(s, 4) \in {utf32BEBOM, utf32LEBOM}
         THEN Fail(s, "BOM", "unsupported byte order mark")
         ELSE s])

\* NewDecoder on a reader of at least 8192 bytes; on an error no decoder is
\* returned
NewDecoderOp(st) ==
    Bind([b \in {handleBOM(st)} |-> IF b.err # "" THEN b ELSE
    Bind([r \in {readAfterWS([b EXCEPT !.maxDepth = defaultMaxDepth])} |->
        IF r.err # ""
        THEN IF r.err = "EOF" THEN r ELSE newReadError(r, r.err)
        ELSE IF r.ch = "[" THEN [r EXCEPT !.arrayStarted = TRUE]
        ELSE UnreadByte(r)])])

\* decodeObject that takes any byte after the object for a separator
decodeObjectAnySeparator(st) ==
    Bind([v0 \in {convertValue(st, topContainer)} |->
        IF v0.err # "" THEN v0 ELSE
    Bind([v \in {[v0 EXCEPT !.endObj = v0.pos]} |->
        IF ~v.arrayStarted THEN v ELSE
    Bind([c \in {readAfterWS(v)} |->
        IF c.err # "" THEN newReadError(c, c.err)
        ELSE IF c.ch = "]" THEN [c EXCEPT !.arrayFinished = TRUE]
        ELSE c])])])

\* decodeObject that leaves the closing bracket to the next call
decodeObjectLeavesClosing(st) ==
    Bind([v0 \in {convertValue(st, topContainer)} |->
        IF v0.err # "" THEN v0 ELSE
    Bind([v \in {[v0 EXCEPT !.endObj = v0.pos]} |->
        IF ~v.arrayStarted THEN v ELSE
    Bind([c \in {readAfterWS(v)} |->
        IF c.err # "" THEN newReadError(c, c.err)
        ELSE IF c.ch = "," THEN c
        ELSE IF c.ch = "]" THEN UnreadByte(c)
        ELSE parseError(c, "expecting value-separator or end of array")
    ])])])

\* Decode from the call of convertValue on
decodeObject(st) ==
    Bind([v0 \in {convertValue(st, topContainer)} |->
        IF v0.err # "" THEN v0 ELSE
    Bind([v \in {[v0 EXCEPT !.endObj = v0.pos]} |->
        IF ~v.arrayStarted THEN v ELSE
    Bind([c \in {readAfterWS(v)} |->
        IF c.err # "" THEN newReadError(c, c.err)
        ELSE IF c.ch = "," THEN c
        ELSE IF c.ch = "]" THEN [c EXCEPT !.arrayFinished = TRUE]
        ELSE parseError(c, "expecting value-separator or end of array")
    ])])])

\* Decode without the test of arrayFinished
DecodeOpNoFinished(st) ==
    Bind([r \in {readAfterWS(st)} |->
    IF r.err # ""
    THEN IF r.err = "EOF" THEN r ELSE newReadError(r, r.err)
    ELSE IF r.ch = "{"
    THEN decodeObject([UnreadByte(r) EXCEPT !.sawBrace = TRUE])
    ELSE IF r.ch = "]"
    THEN IF r.arrayStarted
         THEN Fail([r EXCEPT !.arrayFinished = TRUE], "EOF", "EOF")
         ELSE parseError(r, "Decode only supports object decoding")
    ELSE parseError(r, "Decode only supports object decoding")])

DecodeOp(st) ==
    IF st.arrayFinished THEN Fail(st, "EOF", "EOF")
    ELSE Bind([r \in {readAfterWS(st)} |->
         IF r.err # ""
         THEN IF r.err = "EOF" THEN r ELSE newReadError(r, r.err)
         ELSE IF r.ch = "{"
         THEN decodeObject([UnreadByte(r) EXCEPT !.sawBrace = TRUE])
         ELSE IF r.ch = "]"
         THEN IF r.arrayStarted
              THEN Fail([r EXCEPT !.arrayFinished = TRUE], "EOF", "EOF")
              ELSE parseError(r, "Decode only supports object decoding")
         ELSE parseError(r, "Decode only supports object decoding")])

\* a decoder-and-buffer record over stream s, positioned at p
NewSt(s, p, buf) ==
    [in |-> s, pos |-> p, curDepth |-> 0, maxDepth |-> 0,
     extJSONAllowed |-> FALSE, poolOut |-> 0,
     arrayStarted |-> FALSE, arrayFinished |-> FALSE,
     out |-> buf, err |-> "", msg |-> "", ch |-> "", buf |-> <<>>,
     i |-> 0, flag |-> "", charsNeeded |-> 1, isFloat |-> FALSE,
     handled |-> FALSE, tmp |-> <<>>, tmpMarks |-> {}, sub |-> 0,
     marks |-> {}, vk |-> "null", maxSeen |-> 0, sawBrace |-> FALSE,
     endObj |-> -1, notExt |-> {}]

\* Unmarshal(in, out) and UnmarshalExtJSON(in, out)
UnmarshalOp(s, buf, ext) ==
    Bind([d \in {NewDecoderOp(NewSt(s, 0, <<>>))} |->
        IF d.err # "" THEN d
        ELSE DecodeOp([d EXCEPT !.extJSONAllowed = ext, !.out = buf])])
(***************************************************************************)
(* Pieces of input                                                         *)
(***************************************************************************)
\* {}
objEmpty ==
    <<"{", "}">>
\* {"a":1}
objInt ==
    <<"{", "\"", "a", "\"", ":", "1", "}">>
\* {"a":"x","b":null}
objStr ==
    <<"{", "\"", "a", "\"", ":", "\"", "x", "\"", ",", "\"", "b", "\"", ":",
      "n", "u", "l", "l", "}">>
\* {"a":[1,{"b":true}]}
objMixed ==
    <<"{", "\"", "a", "\"", ":", "[", "1", ",", "{", "\"", "b", "\"", ":",
      "t", "r", "u", "e", "}", "]", "}">>
\* {"k\u0000":false}
objNulKey ==
    <<"{", "\"", "k", "\\", "u", "0", "0", "0", "0", "\"", ":", "f", "a",
      "l", "s", "e", "}">>
\* {"a":-2147483649}
objInt64 ==
    <<"{", "\"", "a", "\"", ":", "-", "2", "1", "4", "7", "4", "8", "3", "6",
      "4", "9", "}">>
\* {"a":0.5}
objDouble ==
    <<"{", "\"", "a", "\"", ":", "0", ".", "5", "}">>
\* {"a":{"$date":5}}
objDate ==
    <<"{", "\"", "a", "\"", ":", "{", "\"", "$", "d", "a", "t", "e", "\"",
      ":", "5", "}", "}">>
\* {"a":{"$timestamp":{"t":1,"i":2}}}
objTimestamp ==
    <<"{", "\"", "a", "\"", ":", "{", "\"", "$", "t", "i", "m", "e", "s",
      "t", "a", "m", "p", "\"", ":", "{", "\"", "t", "\"", ":", "1", ",",
      "\"", "i", "\"", ":", "2", "}", "}", "}">>
\* {"a":{"$type":"x"},"b":[]}
objTypeDoc ==
    <<"{", "\"", "a", "\"", ":", "{", "\"", "$", "t", "y", "p", "e", "\"",
      ":", "\"", "x", "\"", "}", ",", "\"", "b", "\"", ":", "[", "]", "}">>
\* {"r":{"$regex":"p","$options":"mi"}}
objRegex ==
    <<"{", "\"", "r", "\"", ":", "{", "\"", "$", "r", "e", "g", "e", "x",
      "\"", ":", "\"", "p", "\"", ",", "\"", "$", "o", "p", "t", "i", "o",
      "n", "s", "\"", ":", "\"", "m", "i", "\"", "}", "}">>
\* {"a":{"$code":"x","$scope":{"b":1}}}
objCodeScope ==
    <<"{", "\"", "a", "\"", ":", "{", "\"", "$", "c", "o", "d", "e", "\"",
      ":", "\"", "x", "\"", ",", "\"", "$", "s", "c", "o", "p", "e", "\"",
      ":", "{", "\"", "b", "\"", ":", "1", "}", "}", "}">>
\* 42
badNumber ==
    <<"4", "2">>
\* {,}
badComma ==
    <<"{", ",", "}">>
\* {"a":x}
badValue ==
    <<"{", "\"", "a", "\"", ":", "x", "}">>
\* {"a" 1}
badNoColon ==
    <<"{", "\"", "a", "\"", " ", "1", "}">>
\* ]
badBracket ==
    <<"]">>
\* {"a":1}, with the comma behind it
badTrailingComma ==
    objInt \o <<",">>


(***************************************************************************)
(* Streams the decoder is run on                                           *)
(***************************************************************************)
\* bounds
MaxObjs == 2
MaxNest == 4
MaxDepthArg == 3
MaxCalls == 3

\* a chain of nested containers, outermost first: "o" an object whose only
\* value is the next container, "a" an array whose only element is the next
\* container; the innermost container is empty
RECURSIVE Chain(_)
Chain(ks) ==
    IF Len(ks) = 1 THEN IF ks[1] = "o" THEN <<"{", "}">> ELSE <<"[", "]">>
    ELSE IF ks[1] = "o"
    THEN <<"{", "\"", "a", "\"", ":">> \o Chain(Tail(ks)) \o <<"}">>
    ELSE <<"[">> \o Chain(Tail(ks)) \o <<"]">>

ChainShapes ==
    UNION {{ks \in [1..n -> {"o", "a"}] : ks[1] = "o"} : n \in 1..MaxNest}
Chains == {Chain(ks) : ks \in ChainShapes}

\* well-formed objects of plain JSON
PlainObjs ==
    {objEmpty, objInt, objStr, objMixed, objNulKey, objInt64, objDouble}
        \cup Chains
\* well-formed objects with a value in an extended JSON form
ExtObjs == {objDate, objTimestamp, objTypeDoc, objRegex, objCodeScope}
Objs == PlainObjs \cup ExtObjs
\* pieces that are not an object
Bad ==
    {badNumber, badComma, badValue, badNoColon, badBracket, badTrailingComma}
\* the pieces streams of two and more are made of
Few == {objEmpty, Chain(<<"o", "a">>), badNumber}

WSChoices == {<< >>, <<" ">>, <<"\n", " ">>}
Trailers == {<< >>, <<"x">>, <<"[", "{", "}", "]">>}
\* what stands between the objects of a top-level array
Seps == {<<",">>, << >>, <<":">>}

ObjSeqs ==
    {<< >>} \cup {<<p>> : p \in Objs \cup Bad}
    \cup UNION {[1..n -> Few] : n \in 2..MaxObjs}

RECURSIVE Join(_, _)
Join(objs, sep) ==
    IF Len(objs) = 0 THEN << >>
    ELSE IF Len(objs) = 1 THEN objs[1]
    ELSE objs[1] \o sep \o Join(Tail(objs), sep)

\* the text of a stream: objects separated by white space, or a top-level
\* array of them followed by a trailer
Text(s) ==
    IF s.mode = "stream" THEN s.ws \o Join(s.objs, s.ws) \o s.ws
    ELSE s.ws \o <<"[">> \o s.ws \o Join(s.objs, s.ws \o s.sep \o s.ws)
            \o s.ws \o <<"]">> \o s.ws \o s.trailer

\* a trailer comes only after an array whose objects commas separate
ArrayForms == {f \in Seps \X Trailers : f[2] = << >> \/ f[1] = <<",">>}

Sources ==
    {[mode |-> "stream", objs |-> os, ws |-> w, sep |-> << >>,
      trailer |-> << >>] : os \in ObjSeqs, w \in WSChoices}
    \cup {[mode |-> "array", objs |-> os, ws |-> w, sep |-> f[1],
           trailer |-> f[2]] :
            os \in ObjSeqs, w \in {<< >>, <<" ">>}, f \in ArrayForms}

\* where a stream may be cut short
Cuts(s) ==
    IF s.ws = << >> /\ s.trailer = << >> /\ s.sep \in {<< >>, <<",">>}
    THEN 0..Len(Text(s))
    ELSE {Len(Text(s))}

\* the offset in Text(s) where object j starts, and the one where it ends
RECURSIVE StartOf(_, _)
StartOf(s, j) ==
    IF j = 1
    THEN IF s.mode = "stream" THEN Len(s.ws) ELSE 2 * Len(s.ws) + 1
    ELSE StartOf(s, j - 1) + Len(s.objs[j - 1])
            + (IF s.mode = "stream" THEN Len(s.ws)
               ELSE 2 * Len(s.ws) + Len(s.sep))
EndOf(s, j) == IF j = 0 THEN 0 ELSE StartOf(s, j) + Len(s.objs[j])

(***************************************************************************)
(* The state machine                                                       *)
(***************************************************************************)
VARIABLES
    src,            \* how the stream was made (never read by the decoder)
    input,          \* the bytes of the stream
    phase,          \* "new" before NewDecoder, "ready" with a decoder,
                    \* "none" when NewDecoder returned an error
    pos,            \* bytes consumed from the reader
    arrayStarted, arrayFinished, curDepth, extJSONAllowed, maxDepth,
    poolOut,        \* scratch buffers out of the pool
    calls,          \* Decode calls made
    returned,       \* the documents returned so far, in order
    last            \* the last call and what it returned

vars ==
    <<src, input, phase, pos, arrayStarted, arrayFinished, curDepth,
      extJSONAllowed, maxDepth, poolOut, calls, returned, last>>

\* last: the operation, the error and the buffer it returned, what it
\* recorded, and the decoder as the call found it (from: the position,
\* depthBefore, finishedBefore)
NoCall ==
    [op |-> "none", err |-> "", msg |-> "", out |-> << >>, marks |-> {},
     sawBrace |-> FALSE, maxSeen |-> 0, endObj |-> -1, from |-> 0,
     buf |-> << >>, depthBefore |-> 0, finishedBefore |-> FALSE,
     notExt |-> {}]

Init ==
    /\ \E s \in Sources : \E c \in Cuts(s) :
          /\ src = [mode |-> s.mode, objs |-> s.objs, ws |-> s.ws,
                    sep |-> s.sep, trailer |-> s.trailer, cut |-> c,
                    whole |-> c = Len(Text(s))]
          /\ input = SubSeq(Text(s), 1, c)
    /\ phase = "new"
    /\ pos = 0
    /\ arrayStarted = FALSE
    /\ arrayFinished = FALSE
    /\ curDepth = 0
    /\ extJSONAllowed = FALSE
    /\ maxDepth = 0
    /\ poolOut = 0
    /\ calls = 0
    /\ returned = << >>
    /\ last = NoCall

\* the decoder's fields and reader as a record, with output buffer buf
Cur(buf) ==
    [NewSt(input, pos, buf) EXCEPT
        !.curDepth = curDepth, !.maxDepth = maxDepth,
        !.extJSONAllowed = extJSONAllowed, !.poolOut = poolOut,
        !.arrayStarted = arrayStarted, !.arrayFinished = arrayFinished,
        !.maxSeen = curDepth]

Outcome(op, r, buf) ==
    [op |-> op, err |-> r.err, msg |-> r.msg,
     out |-> IF r.err = "" THEN r.out ELSE << >>,
     marks |-> IF r.err = "" THEN r.marks ELSE {},
     sawBrace |-> r.sawBrace, maxSeen |-> r.maxSeen, endObj |-> r.endObj,
     from |-> pos, buf |-> buf, depthBefore |-> curDepth,
     finishedBefore |-> arrayFinished, notExt |-> r.notExt]

NewDecoder ==
    /\ phase = "new"
    /\ \E r \in {NewDecoderOp(NewSt(input, 0, << >>))} :
        /\ phase' = IF r.err = "" THEN "ready" ELSE "none"
        /\ pos' = r.pos
        /\ arrayStarted' = r.arrayStarted
        /\ maxDepth' = IF r.err = "" THEN r.maxDepth ELSE maxDepth
        /\ last' = Outcome("NewDecoder", r, << >>)
    /\ UNCHANGED <<src, input, arrayFinished, curDepth, extJSONAllowed,
                   poolOut, calls, returned>>

ExtJSON(b) ==
    /\ phase = "ready"
    /\ extJSONAllowed' = b
    /\ UNCHANGED <<src, input, phase, pos, arrayStarted, arrayFinished,
                   curDepth, maxDepth, poolOut, calls, returned, last>>

MaxDepth(n) ==
    /\ phase = "ready"
    /\ maxDepth' = n
    /\ UNCHANGED <<src, input, phase, pos, arrayStarted, arrayFinished,
                   curDepth, extJSONAllowed, poolOut, calls, returned, last>>

Decode(buf) ==
    /\ phase = "ready"
    /\ calls < MaxCalls
    /\ \E r \in {DecodeOp(Cur(buf))} :
        /\ pos' = r.pos
        /\ arrayFinished' = r.arrayFinished
        /\ curDepth' = r.curDepth
        /\ poolOut' = r.poolOut
        /\ returned' = IF r.err = "" THEN Append(returned, r.out)
                       ELSE returned
        /\ last' = Outcome("Decode", r, buf)
    /\ calls' = calls + 1
    /\ UNCHANGED <<src, input, phase, arrayStarted, extJSONAllowed,
                   maxDepth>>

\* the output buffers Decode is handed
Bufs == {<< >>}

Next ==
    \/ NewDecoder
    \/ \E b \in BOOLEAN : ExtJSON(b)
    \/ \E n \in 0..MaxDepthArg : MaxDepth(n)
    \/ \E buf \in Bufs : Decode(buf)

Spec == Init /\ [][Next]_vars

TypeOK ==
    /\ phase \in {"new", "ready", "none"}
    /\ pos \in 0..Len(input)
    /\ calls \in 0..MaxCalls

(***************************************************************************)
(* Properties                                                              *)
(***************************************************************************)
\* the deepest nesting of containers in a piece of text none of whose
\* strings holds a bracket
Opens(o, i) == Cardinality({j \in 1..i : o[j] \in {"{", "["}})
Closes(o, i) == Cardinality({j \in 1..i : o[j] \in {"}", "]"}})
Nesting(o) ==
    LET ds == {Opens(o, i) - Closes(o, i) : i \in 1..Len(o)}
    IN  CHOOSE d \in ds : \A e \in ds : e <= d

\* C1: whenever Decode succeeds, every document and array in the bytes it
\* appended (the top-level document, every nested document and array, and the
\* documents copied out of a scratch buffer) starts with a 4-byte
\* little-endian length equal to the number of bytes from that length field
\* through the trailing 0x00 of the container.
C1_LengthPrefixes ==
    (last.op = "Decode" /\ last.err = "") =>
        /\ Mark("document", Len(last.buf), Len(last.out), 0) \in last.marks
        /\ \A m \in last.marks :
              m.k \in {"document", "array", "scratch"} =>
                  /\ m.e - m.s >= 5
                  /\ ReadLE32(last.out, m.s) = m.e - m.s
                  /\ last.out[m.e] = 0

\* a successful Decode whose output holds a document copied out of a scratch
\* buffer and a nested array
C1_Witness ==
    /\ last.op = "Decode"
    /\ last.err = ""
    /\ \E m \in last.marks : m.k = "scratch"
    /\ \E m \in last.marks : m.k = "array" /\ m.s > 0

\* C2: in non-array mode, on an input made of k >= 0 objects separated by any
\* amount of white space, the Decode call that follows j < k calls that each
\* returned one document returns the document of object j + 1 and stops
\* right after it, the call after k documents returns io.EOF, and for k = 0
\* NewDecoder returns io.EOF.  An object is one that Decode converts whole
\* when it is the only thing in the input, under the decoder's settings.
C2_StreamOfObjects ==
    [][(src.mode = "stream" /\ src.whole) =>
        /\ (phase = "new" /\ phase' # "new" /\ Len(src.objs) = 0) =>
                (phase' = "none" /\ last'.err = "EOF")
        /\ (/\ phase = "ready"
            /\ calls' = calls + 1
            /\ Len(returned) = calls
            /\ pos = IF calls = 0 THEN Len(src.ws) ELSE EndOf(src, calls)) =>
                IF calls < Len(src.objs)
                THEN LET o == src.objs[calls + 1]
                         alone == DecodeOp(
                            [NewSt(o, 0, << >>) EXCEPT
                                !.extJSONAllowed = extJSONAllowed,
                                !.maxDepth = maxDepth])
                     IN  (alone.err = "" /\ alone.pos = Len(o)) =>
                            /\ last'.err = ""
                            /\ returned' = Append(returned, alone.out)
                            /\ pos' = EndOf(src, calls + 1)
                ELSE /\ last'.err = "EOF"
                     /\ returned' = returned]_vars

\* two different documents returned in the order of the input, white space
\* between the objects, then io.EOF
C2_Witness ==
    /\ src.mode = "stream"
    /\ src.whole
    /\ src.ws # << >>
    /\ Len(src.objs) = 2
    /\ calls = 3
    /\ Len(returned) = 2
    /\ returned[1] # returned[2]
    /\ last.err = "EOF"

\* C3: in array mode a Decode call returns a document only if the object it
\* converted is followed, after optional white space, by a comma or a closing
\* bracket; when any other byte follows the converted object, the call fails
\* and returns no document.
C3_ArraySeparator ==
    (last.op = "Decode" /\ arrayStarted) =>
        /\ last.err = "" =>
              /\ last.endObj >= 0
              /\ pos > last.endObj
              /\ input[pos] \in {",", "]"}
              /\ \A j \in (last.endObj + 1)..(pos - 1) : input[j] \in WS
        /\ (/\ last.endObj >= 0
            /\ \E j \in (last.endObj + 1)..Len(input) :
                  /\ input[j] \notin WS \cup {",", "]"}
                  /\ \A i \in (last.endObj + 1)..(j - 1) : input[i] \in WS) =>
              (last.err = "Parse" /\ last.out = << >>)

\* an object of a top-level array was converted and a byte that is neither a
\* comma nor a closing bracket followed it
C3_Witness ==
    /\ last.op = "Decode"
    /\ arrayStarted
    /\ last.endObj >= 0
    /\ last.endObj < Len(input)
    /\ input[last.endObj + 1] \in {"{", ":"}
    /\ last.err = "Parse"

\* C4: once a Decode call has read the closing bracket of the top-level
\* array, every later Decode call returns io.EOF and consumes no input,
\* whatever follows the bracket.
C4_AfterArrayEnd ==
    [][(arrayFinished /\ calls' = calls + 1) =>
        /\ last'.err = "EOF"
        /\ pos' = pos
        /\ returned' = returned
        /\ arrayFinished']_vars

\* a Decode call made after the closing bracket, with input left
C4_Witness ==
    /\ last.op = "Decode"
    /\ last.finishedBefore
    /\ last.err = "EOF"
    /\ pos = last.from
    /\ pos < Len(input)

\* C5: Decode returns io.EOF unwrapped only when the input ends before the
\* first byte of a document, never after the opening brace of a document has
\* been read (inside a $date or $timestamp value either).
C5_CleanEOFOnlyBeforeDocument ==
    (last.op = "Decode" /\ last.err = "EOF") => ~last.sawBrace

\* C6: in array mode, when the input ends right after the comma that followed
\* a document, the next Decode call fails with the unexpected end of input
\* and not with io.EOF.
C6_EOFAfterComma ==
    (/\ last.op = "Decode"
     /\ arrayStarted
     /\ ~last.finishedBefore
     /\ calls >= 2
     /\ Len(returned) >= calls - 1
     /\ last.from = Len(input)
     /\ input[Len(input)] = ",") =>
        last.err = "UnexpectedEOF"

\* C7: on a decoder just created, with maximum depth n and extended JSON off,
\* an object whose containers nest n deep at most is accepted and one whose
\* containers nest deeper fails with the maximum depth error.
C7_DepthLimit ==
    [][(/\ phase = "ready"
        /\ calls = 0
        /\ calls' = 1
        /\ ~extJSONAllowed
        /\ src.mode = "stream"
        /\ src.whole
        /\ Len(src.objs) >= 1
        /\ src.objs[1] \in PlainObjs) =>
            /\ Nesting(src.objs[1]) <= maxDepth => last'.err = ""
            /\ Nesting(src.objs[1]) > maxDepth => last'.err = "MaxDepth"]_vars

\* the first Decode of a decoder accepted an object that nests as deep as the
\* limit that was set
C7_Witness ==
    /\ calls = 1
    /\ last.op = "Decode"
    /\ last.err = ""
    /\ ~extJSONAllowed
    /\ maxDepth \in 1..MaxDepthArg
    /\ last.maxSeen = maxDepth
    /\ src.objs[1] \in PlainObjs
    /\ Nesting(src.objs[1]) = maxDepth

\* C8: after every Decode call, succeeded or failed, the depth counter is
\* back to 0.
C8_DepthRestored == phase = "ready" => curDepth = 0

\* C9: whenever Decode succeeds, no key and no cstring of a regular
\* expression in the output holds a 0x00 byte before the one that ends it.
C9_NoInteriorNul ==
    (last.op = "Decode" /\ last.err = "") =>
        \A m \in last.marks :
            m.k \in {"key", "cstr"} =>
                /\ last.out[m.e] = 0
                /\ \A j \in (m.s + 1)..(m.e - 1) : last.out[j] # 0

\* C10: whenever Decode succeeds, the type byte of every element in the
\* output holds the tag of the value that follows, none holds the
\* placeholder, and the top-level document has no type byte: the output
\* starts with its length.
C10_TypeBytes ==
    (last.op = "Decode" /\ last.err = "") =>
        /\ \A m \in last.marks :
              m.k = "elem" =>
                  /\ last.out[m.s + 1] = m.t
                  /\ m.t # emptyType
        /\ \A k \in last.marks :
              k.k = "key" =>
                  \E m \in last.marks : m.k = "elem" /\ m.s = k.s - 1
        /\ ReadLE32(last.out, Len(last.buf)) = Len(last.out) - Len(last.buf)

\* a document with elements of four different types
C10_Witness ==
    /\ last.op = "Decode"
    /\ last.err = ""
    /\ {bsonDocument, bsonArray, bsonBoolean, bsonInt32}
          \subseteq {m.t : m \in {e \in last.marks : e.k = "elem"}}

(***************************************************************************)
(* Unmarshal and UnmarshalExtJSON on one document                          *)
(***************************************************************************)
\* a document to convert: the family it belongs to, the number n and the
\* texts x and y it was made from, and its text
Case(kind, n, x, y, text) ==
    [mode |-> "unmarshal", kind |-> kind, n |-> n, x |-> x, y |-> y,
     text |-> text]

\* {"a":v}
DocA(v) == <<"{", "\"", "a", "\"", ":">> \o v \o <<"}">>
\* {"a":v,"z":1}
DocAZ(v) == <<"{", "\"", "a", "\"", ":">> \o v
                \o <<",", "\"", "z", "\"", ":", "1", "}">>
\* the text in its quotes
Quoted(s) == <<"\"">> \o s \o <<"\"">>
\* {k:v}
Obj1(k, v) == <<"{">> \o Quoted(k) \o <<":">> \o v \o <<"}">>
\* {k1:v1,k2:v2}
Obj2(k1, v1, k2, v2) ==
    <<"{">> \o Quoted(k1) \o <<":">> \o v1 \o <<",">>
        \o Quoted(k2) \o <<":">> \o v2 \o <<"}">>

\* ---- arrays of n elements ----
MaxElems == 102
\* [e,e,...,e] with n elements
ArrayOf(n, e) ==
    IF n = 0 THEN <<"[", "]">>
    ELSE [i \in 1..(2 * n + 1) |->
            IF i = 1 THEN "[" ELSE IF i = 2 * n + 1 THEN "]"
            ELSE IF i % 2 = 0 THEN e ELSE ","]
ArrayCases ==
    {Case("array", n, <<"7">>, << >>, DocA(ArrayOf(n, "7"))) :
        n \in (0..3) \cup ((arrayKeyLen - 1)..MaxElems)}

\* ---- objects in the extended JSON forms ----
\* {"$oid":"5d505646cf6d4fe581014ab2"}
xOID ==
    <<"{", "\"", "$", "o", "i", "d", "\"", ":", "\"", "5", "d", "5", "0",
      "5", "6", "4", "6", "c", "f", "6", "d", "4", "f", "e", "5", "8", "1",
      "0", "1", "4", "a", "b", "2", "\"", "}">>
\* {"$symbol":"s"}
xSymbol ==
    <<"{", "\"", "$", "s", "y", "m", "b", "o", "l", "\"", ":", "\"", "s",
      "\"", "}">>
\* {"$numberInt":"5"}
xNumberInt ==
    <<"{", "\"", "$", "n", "u", "m", "b", "e", "r", "I", "n", "t", "\"", ":",
      "\"", "5", "\"", "}">>
\* {"$numberLong":"5"}
xNumberLong ==
    <<"{", "\"", "$", "n", "u", "m", "b", "e", "r", "L", "o", "n", "g", "\"",
      ":", "\"", "5", "\"", "}">>
\* {"$numberDouble":"1.5"}
xNumberDouble ==
    <<"{", "\"", "$", "n", "u", "m", "b", "e", "r", "D", "o", "u", "b", "l",
      "e", "\"", ":", "\"", "1", ".", "5", "\"", "}">>
\* {"$numberDecimal":"1"}
xNumberDecimal ==
    <<"{", "\"", "$", "n", "u", "m", "b", "e", "r", "D", "e", "c", "i", "m",
      "a", "l", "\"", ":", "\"", "1", "\"", "}">>
\* {"$minKey":1}
xMinKey ==
    <<"{", "\"", "$", "m", "i", "n", "K", "e", "y", "\"", ":", "1", "}">>
\* {"$maxKey":1}
xMaxKey ==
    <<"{", "\"", "$", "m", "a", "x", "K", "e", "y", "\"", ":", "1", "}">>
\* {"$undefined":true}
xUndefined ==
    <<"{", "\"", "$", "u", "n", "d", "e", "f", "i", "n", "e", "d", "\"", ":",
      "t", "r", "u", "e", "}">>
\* {"$date":{"$numberLong":"5"}}
xDate ==
    <<"{", "\"", "$", "d", "a", "t", "e", "\"", ":", "{", "\"", "$", "n",
      "u", "m", "b", "e", "r", "L", "o", "n", "g", "\"", ":", "\"", "5",
      "\"", "}", "}">>
\* {"$timestamp":{"t":1,"i":2}}
xTimestamp ==
    <<"{", "\"", "$", "t", "i", "m", "e", "s", "t", "a", "m", "p", "\"", ":",
      "{", "\"", "t", "\"", ":", "1", ",", "\"", "i", "\"", ":", "2", "}",
      "}">>
\* {"$binary":{"base64":"AQ==","subType":"00"}}
xBinary ==
    <<"{", "\"", "$", "b", "i", "n", "a", "r", "y", "\"", ":", "{", "\"",
      "b", "a", "s", "e", "6", "4", "\"", ":", "\"", "A", "Q", "=", "=",
      "\"", ",", "\"", "s", "u", "b", "T", "y", "p", "e", "\"", ":", "\"",
      "0", "0", "\"", "}", "}">>
\* {"$regularExpression":{"pattern":"a","options":"i"}}
xRegularExpression ==
    <<"{", "\"", "$", "r", "e", "g", "u", "l", "a", "r", "E", "x", "p", "r",
      "e", "s", "s", "i", "o", "n", "\"", ":", "{", "\"", "p", "a", "t", "t",
      "e", "r", "n", "\"", ":", "\"", "a", "\"", ",", "\"", "o", "p", "t",
      "i", "o", "n", "s", "\"", ":", "\"", "i", "\"", "}", "}">>
\* {"$dbPointer":{"$ref":"c","$id":{"$oid":"5d505646cf6d4fe581014ab2"}}}
xDbPointer ==
    <<"{", "\"", "$", "d", "b", "P", "o", "i", "n", "t", "e", "r", "\"", ":",
      "{", "\"", "$", "r", "e", "f", "\"", ":", "\"", "c", "\"", ",", "\"",
      "$", "i", "d", "\"", ":", "{", "\"", "$", "o", "i", "d", "\"", ":",
      "\"", "5", "d", "5", "0", "5", "6", "4", "6", "c", "f", "6", "d", "4",
      "f", "e", "5", "8", "1", "0", "1", "4", "a", "b", "2", "\"", "}", "}",
      "}">>
\* {"$code":"x"}
xCode ==
    <<"{", "\"", "$", "c", "o", "d", "e", "\"", ":", "\"", "x", "\"", "}">>
\* {"$code":"x","$scope":{}}
xCodeScope ==
    <<"{", "\"", "$", "c", "o", "d", "e", "\"", ":", "\"", "x", "\"", ",",
      "\"", "$", "s", "c", "o", "p", "e", "\"", ":", "{", "}", "}">>
\* {"$scope":{},"$code":"x"}
xScopeCode ==
    <<"{", "\"", "$", "s", "c", "o", "p", "e", "\"", ":", "{", "}", ",",
      "\"", "$", "c", "o", "d", "e", "\"", ":", "\"", "x", "\"", "}">>
\* {"$binary":"AQ==","$type":"00"}
xBinaryType ==
    <<"{", "\"", "$", "b", "i", "n", "a", "r", "y", "\"", ":", "\"", "A",
      "Q", "=", "=", "\"", ",", "\"", "$", "t", "y", "p", "e", "\"", ":",
      "\"", "0", "0", "\"", "}">>
\* {"$type":"00","$binary":"AQ=="}
xTypeBinary ==
    <<"{", "\"", "$", "t", "y", "p", "e", "\"", ":", "\"", "0", "0", "\"",
      ",", "\"", "$", "b", "i", "n", "a", "r", "y", "\"", ":", "\"", "A",
      "Q", "=", "=", "\"", "}">>
\* {"$regex":"a","$options":"i"}
xRegexOptions ==
    <<"{", "\"", "$", "r", "e", "g", "e", "x", "\"", ":", "\"", "a", "\"",
      ",", "\"", "$", "o", "p", "t", "i", "o", "n", "s", "\"", ":", "\"",
      "i", "\"", "}">>
\* {"$options":"i","$regex":"a"}
xOptionsRegex ==
    <<"{", "\"", "$", "o", "p", "t", "i", "o", "n", "s", "\"", ":", "\"",
      "i", "\"", ",", "\"", "$", "r", "e", "g", "e", "x", "\"", ":", "\"",
      "a", "\"", "}">>
\* {"$type":"00","b":1}
xTypeOther ==
    <<"{", "\"", "$", "t", "y", "p", "e", "\"", ":", "\"", "0", "0", "\"",
      ",", "\"", "b", "\"", ":", "1", "}">>
\* {"$regex":"a","b":1}
xRegexOther ==
    <<"{", "\"", "$", "r", "e", "g", "e", "x", "\"", ":", "\"", "a", "\"",
      ",", "\"", "b", "\"", ":", "1", "}">>
\* {"$regex":{"b":1}}
xRegexQuery ==
    <<"{", "\"", "$", "r", "e", "g", "e", "x", "\"", ":", "{", "\"", "b",
      "\"", ":", "1", "}", "}">>
\* {"$options":"i"}
xOptionsAlone ==
    <<"{", "\"", "$", "o", "p", "t", "i", "o", "n", "s", "\"", ":", "\"",
      "i", "\"", "}">>
\* the first key and the text of every well-formed extended JSON object
ExtForms ==
    {<<jsonOID, xOID>>, <<jsonSymbol, xSymbol>>,
     <<jsonNumberInt, xNumberInt>>, <<jsonNumberLong, xNumberLong>>,
     <<jsonNumberDouble, xNumberDouble>>,
     <<jsonNumberDecimal, xNumberDecimal>>, <<jsonMinKey, xMinKey>>,
     <<jsonMaxKey, xMaxKey>>, <<jsonUndefined, xUndefined>>,
     <<jsonDate, xDate>>, <<jsonTimestamp, xTimestamp>>,
     <<jsonBinary, xBinary>>, <<jsonRegularExpression, xRegularExpression>>,
     <<jsonDbPointer, xDbPointer>>, <<jsonCode, xCode>>,
     <<jsonCode, xCodeScope>>, <<jsonScope, xScopeCode>>,
     <<jsonBinary, xBinaryType>>, <<jsonType, xTypeBinary>>,
     <<jsonRegex, xRegexOptions>>, <<jsonOptions, xOptionsRegex>>}
\* objects that start with an extended JSON key and are not of its form
PlainForms ==
    {<<jsonType, xTypeOther>>, <<jsonRegex, xRegexOther>>,
     <<jsonRegex, xRegexQuery>>, <<jsonOptions, xOptionsAlone>>}

\* where the object o stands: 0 it is the whole input, 1 it is the value of
\* a key of the top-level document, 2 and 3 it is the scope of a code with
\* scope, after and before the code, 4 it is the value of a key that another
\* key follows
Place(n, o) ==
    IF n = 0 THEN o
    ELSE IF n = 1 THEN DocA(o)
    ELSE IF n = 2 THEN DocA(Obj2(jsonCode, Quoted(<<"x">>), jsonScope, o))
    ELSE IF n = 3 THEN DocA(Obj2(jsonScope, o, jsonCode, Quoted(<<"x">>)))
    ELSE DocAZ(o)

ExtKeyCases ==
    {Case("extkey", n, f[1], f[2], Place(n, f[2])) :
        n \in 0..4, f \in ExtForms}
    \cup {Case("extkeyplain", n, f[1], f[2], Place(n, f[2])) :
            n \in 0..4, f \in PlainForms}

\* ---- documents of two keys ----
\* the text of the members ms, each a pair of a key and a value, joined by sep
RECURSIVE Members(_, _)
Members(ms, sep) ==
    IF ms = << >> THEN << >>
    ELSE Quoted(ms[1][1]) \o <<":">> \o ms[1][2]
            \o (IF Len(ms) > 1 THEN sep ELSE << >>)
            \o Members(Tail(ms), sep)
\* {"a":{key:{members}}}
PairDoc(key, ms, sep) ==
    DocA(Obj1(key, <<"{">> \o Members(ms, sep) \o <<"}">>))

\* a key that no extended JSON document has, as long as the key k
Unknown(k) == [i \in 1..Len(k) |-> "q"]

\* the extended JSON key, its two keys and a value for each of them
PairForms ==
    {<<jsonBinary, <<jsonBase64, Quoted(<<"A", "Q", "I", "D">>)>>,
                   <<jsonSubType, Quoted(<<"8", "0">>)>>>>,
     <<jsonDbPointer, <<jsonRef, Quoted(<<"c">>)>>, <<jsonID, xOID>>>>,
     <<jsonTimestamp, <<<<"t">>, <<"1">>>>, <<<<"i">>, <<"2">>>>>>,
     <<jsonRegularExpression, <<jsonREpattern, Quoted(<<"a">>)>>,
                              <<jsonREoptions, Quoted(<<"x", "i">>)>>>>}

\* the lists of members tried: 1 and 2 are the two keys once each
PairMembers(a, b) ==
    <<<<a, b>>, <<b, a>>, <<a, a>>, <<b, b>>, <<a>>, <<b>>, << >>,
      <<a, b, a>>, <<a, b, b>>, <<b, a, b>>,
      <<a, b, <<Unknown(a[1]), a[2]>>>>, <<a, <<Unknown(b[1]), b[2]>>>>,
      <<<<Unknown(a[1]), a[2]>>, b>>, <<<<Unknown(b[1]), b[2]>>, a, b>>>>
PairSeps == {<<",">>, <<",", ",">>, << >>}

\* n is the number of the list of members when one comma separates them and
\* 0 otherwise; x is the text with the two keys in the other order
PairCasesOf(f) ==
    {Case("pair", IF sep = <<",">> THEN n ELSE 0,
          PairDoc(f[1], PairMembers(f[2], f[3])[IF n = 2 THEN 1 ELSE 2],
                  <<",">>),
          f[1], PairDoc(f[1], PairMembers(f[2], f[3])[n], sep)) :
        n \in DOMAIN PairMembers(f[2], f[3]), sep \in PairSeps}
PairCases == UNION {PairCasesOf(f) : f \in PairForms}

\* ---- regular expressions ----
\* the option letters tried: two of the letters of regular expressions and
\* one that is none
OptionLetters == {"x", "i", "z"}
MaxOptions == 3
OptionStrings == UNION {[1..n -> OptionLetters] : n \in 0..MaxOptions}

\* the three forms of a regular expression with the pattern p
RegexForm(n, options) ==
    IF n = 0
    THEN Obj1(jsonRegularExpression,
              Obj2(jsonREpattern, Quoted(<<"p">>),
                   jsonREoptions, Quoted(options)))
    ELSE IF n = 1
    THEN Obj2(jsonRegex, Quoted(<<"p">>), jsonOptions, Quoted(options))
    ELSE Obj2(jsonOptions, Quoted(options), jsonRegex, Quoted(<<"p">>))

RegexCases ==
    {Case("regex", n, o, << >>, DocA(RegexForm(n, o))) :
        n \in 0..2, o \in OptionStrings}

\* ---- binary data in the legacy form ----
\* base64 strings, well and badly formed, one with escapes
Base64Strings ==
    {<< >>,
     <<"A", "Q", "=", "=">>,
     <<"A", "Q", "I", "D">>,
     <<"A", "Q">>,
     <<"A", "=", "=", "=">>,
     <<"A", "Q", "\\", "u", "0", "0", "3", "d", "\\", "u", "0", "0", "3", "d">>,
     <<"A", "Q", "I", "D", "B", "A", "=", "=">>}
\* subtype strings, well and badly formed, one with an escape
SubTypeStrings ==
    {<< >>,
     <<"0">>,
     <<"0", "0">>,
     <<"8", "0">>,
     <<"2">>,
     <<"0", "2">>,
     <<"0", "0", "0">>,
     <<"0", "0", "0", "0">>,
     <<"z", "z">>,
     <<"\\", "u", "0", "0", "3", "0">>}

\* {"$binary":base64,"$type":subType} and {"$type":subType,"$binary":base64}
LegacyBinary(n, base64, subType) ==
    IF n = 0
    THEN Obj2(jsonBinary, Quoted(base64), jsonType, Quoted(subType))
    ELSE Obj2(jsonType, Quoted(subType), jsonBinary, Quoted(base64))

LegacyBinaryCases ==
    {Case("legacybinary", n, b, s, DocA(LegacyBinary(n, b, s))) :
        n \in 0..1, b \in Base64Strings, s \in SubTypeStrings}

\* {"a":{"$type":subType}}: the key $type alone
TypeAloneCases ==
    {Case("typealone", 0, s, << >>, DocA(Obj1(jsonType, Quoted(s)))) :
        s \in SubTypeStrings}

\* ---- binary data of subtype 2 ----
\* base64 strings and the bytes they stand for
Payloads ==
    {<<<< >>, << >>>>,
     <<<<"A", "Q", "=", "=">>, <<1>>>>,
     <<<<"/", "/", "8", "=">>, <<255, 255>>>>,
     <<<<"A", "Q", "I", "D">>, <<1, 2, 3>>>>,
     <<<<"A", "Q", "I", "D", "B", "A", "=", "=">>, <<1, 2, 3, 4>>>>}

\* the four forms of a binary: the document with base64 first and with
\* subType first, the legacy form with $binary first and with $type first
BinaryForm(n, base64, subType) ==
    IF n = 0
    THEN Obj1(jsonBinary, Obj2(jsonBase64, Quoted(base64),
                               jsonSubType, Quoted(subType)))
    ELSE IF n = 1
    THEN Obj1(jsonBinary, Obj2(jsonSubType, Quoted(subType),
                               jsonBase64, Quoted(base64)))
    ELSE LegacyBinary(n - 2, base64, subType)

\* x is the base64 string and y the bytes of the payload
OldBinaryCases ==
    {Case("oldbinary", n, p[1], p[2], DocA(BinaryForm(n, p[1], s))) :
        n \in 0..3, p \in Payloads, s \in {<<"2">>, <<"0", "2">>}}

\* ---- integer literals ----
\* a literal, and the tag and the payload of the number it stands for
\* the digit d and n zeros after it
Pow10Lit(d, n) == <<d>> \o [i \in 1..n |-> "0"]
\* the bytes of the double 10^308
Pow10Max == <<160, 200, 235, 133, 243, 204, 225, 127>>

IntLiterals ==
    {<<<<"0">>, bsonInt32, <<0, 0, 0, 0>>>>,
     <<<<"-", "0">>, bsonInt32, <<0, 0, 0, 0>>>>,
     <<<<"7">>, bsonInt32, <<7, 0, 0, 0>>>>,
     <<<<"-", "1">>, bsonInt32, <<255, 255, 255, 255>>>>,
     <<<<"2", "5", "5">>, bsonInt32, <<255, 0, 0, 0>>>>,
     <<<<"-", "2", "5", "6">>, bsonInt32, <<0, 255, 255, 255>>>>,
     <<<<"6", "5", "5", "3", "6">>, bsonInt32, <<0, 0, 1, 0>>>>,
     <<<<"2", "1", "4", "7", "4", "8", "3", "6", "4", "7">>, bsonInt32,
       <<255, 255, 255, 127>>>>,
     <<<<"2", "1", "4", "7", "4", "8", "3", "6", "4", "8">>, bsonInt64, <<0,
       0, 0, 128, 0, 0, 0, 0>>>>,
     <<<<"-", "2", "1", "4", "7", "4", "8", "3", "6", "4", "8">>, bsonInt32,
       <<0, 0, 0, 128>>>>,
     <<<<"-", "2", "1", "4", "7", "4", "8", "3", "6", "4", "9">>, bsonInt64,
       <<255, 255, 255, 127, 255, 255, 255, 255>>>>,
     <<<<"4", "2", "9", "4", "9", "6", "7", "2", "9", "5">>, bsonInt64,
       <<255, 255, 255, 255, 0, 0, 0, 0>>>>,
     <<<<"4", "2", "9", "4", "9", "6", "7", "2", "9", "6">>, bsonInt64, <<0,
       0, 0, 0, 1, 0, 0, 0>>>>,
     <<<<"1", "2", "3", "4", "5", "6", "7", "8", "9", "0", "1", "2">>,
       bsonInt64, <<20, 26, 153, 190, 28, 0, 0, 0>>>>,
     <<<<"9", "2", "2", "3", "3", "7", "2", "0", "3", "6", "8", "5", "4",
       "7", "7", "5", "8", "0", "7">>, bsonInt64, <<255, 255, 255, 255, 255,
       255, 255, 127>>>>,
     <<<<"9", "2", "2", "3", "3", "7", "2", "0", "3", "6", "8", "5", "4",
       "7", "7", "5", "8", "0", "8">>, bsonDouble, <<0, 0, 0, 0, 0, 0, 224,
       67>>>>,
     <<<<"-", "9", "2", "2", "3", "3", "7", "2", "0", "3", "6", "8", "5",
       "4", "7", "7", "5", "8", "0", "8">>, bsonInt64, <<0, 0, 0, 0, 0, 0, 0,
       128>>>>,
     <<<<"-", "9", "2", "2", "3", "3", "7", "2", "0", "3", "6", "8", "5",
       "4", "7", "7", "5", "8", "0", "9">>, bsonDouble, <<0, 0, 0, 0, 0, 0,
       224, 195>>>>,
     <<<<"1", "8", "4", "4", "6", "7", "4", "4", "0", "7", "3", "7", "0",
       "9", "5", "5", "1", "6", "1", "5">>, bsonDouble, <<0, 0, 0, 0, 0, 0,
       240, 67>>>>,
     <<<<"1", "8", "4", "4", "6", "7", "4", "4", "0", "7", "3", "7", "0",
       "9", "5", "5", "1", "6", "1", "6">>, bsonDouble, <<0, 0, 0, 0, 0, 0,
       240, 67>>>>,
     <<<<"3", "6", "8", "9", "3", "4", "8", "8", "1", "4", "7", "4", "1",
       "9", "1", "0", "3", "2", "3", "3">>, bsonDouble, <<0, 0, 0, 0, 0, 0,
       0, 68>>>>,
     <<<<"1", "0", "0", "0", "0", "0", "0", "0", "0", "0", "0", "0", "0",
       "0", "0", "0", "0", "0", "0", "0", "0", "0", "0", "0", "0", "0", "0",
       "0", "0", "0", "0">>, bsonDouble, <<234, 140, 160, 57, 89, 62, 41,
       70>>>>,
     <<<<"-", "1", "0", "0", "0", "0", "0", "0", "0", "0", "0", "0", "0",
       "0", "0", "0", "0", "0", "0", "0", "0", "0", "0", "0", "0", "0", "0",
       "0", "0", "0", "0", "0">>, bsonDouble, <<234, 140, 160, 57, 89, 62,
       41, 198>>>>}

\* integer literals of 309 digits, the longest that the window of
\* doublePeekWidth bytes holds with a terminator, and of 310 digits
LongIntLiterals ==
    {<<Pow10Lit("1", doublePeekWidth - 2), bsonDouble, Pow10Max>>,
     <<Pow10Lit("2", doublePeekWidth - 2), bsonDouble, << >>>>,
     <<Pow10Lit("1", doublePeekWidth - 1), bsonDouble, << >>>>}

\* x is the literal and y the tag and the payload, when there is one
IntCases ==
    {Case("int", 0, v[1], <<v[2], v[3]>>, DocA(v[1])) :
        v \in IntLiterals \cup LongIntLiterals}

\* ---- number literals ----
\* the characters the literals are made of, and their greatest length
LiteralChars == {"-", "+", "0", "7", ".", "e", "_"}
MaxLiteral == 3
Literals == UNION {[1..n -> LiteralChars] : n \in 1..MaxLiteral}

\* x is the literal; a closing brace follows it when n is 0 and a comma
\* when n is 1
LiteralCases ==
    {Case("literal", n, v, << >>, IF n = 0 THEN DocA(v) ELSE DocAZ(v)) :
        n \in 0..1, v \in Literals}

\* ---- strings with escapes of surrogates ----
\* 1 when the string holds a pair of surrogates and 0 otherwise, the
\* string, and the bytes of the string it stands for
SurrogateStrings ==
    {<<1, <<"\\", "u", "D", "8", "3", "4", "\\", "u", "D", "D", "1", "E">>,
       <<240, 157, 132, 158>>>>,
     <<0, <<"\\", "u", "D", "8", "3", "4">>,
       <<239, 191, 189>>>>,
     <<0, <<"\\", "u", "D", "8", "3", "4", "a">>,
       <<239, 191, 189, 97>>>>,
     <<0, <<"\\", "u", "D", "8", "3", "4", "\\", "n">>,
       <<239, 191, 189, 10>>>>,
     <<0, <<"\\", "u", "D", "8", "3", "4", "\\", "u", "0", "0", "e", "9">>,
       <<239, 191, 189, 195, 169>>>>,
     <<0, <<"\\", "u", "D", "D", "1", "E">>,
       <<239, 191, 189>>>>,
     <<0, <<"\\", "u", "D", "D", "1", "E", "\\", "u", "D", "8", "3", "4">>,
       <<239, 191, 189, 239, 191, 189>>>>,
     <<1, <<"a", "\\", "u", "D", "8", "3", "D", "\\", "u", "D", "E", "0", "0", "b">>,
       <<97, 240, 159, 152, 128, 98>>>>,
     <<1, <<"\\", "u", "d", "8", "3", "4", "\\", "u", "d", "d", "1", "e">>,
       <<240, 157, 132, 158>>>>,
     <<1, <<"\\", "u", "D", "8", "3", "4", "\\", "u", "D", "8", "3", "4", "\\",
        "u", "D", "D", "1", "E">>,
       <<239, 191, 189, 240, 157, 132, 158>>>>,
     <<0, <<"\\", "u", "D", "7", "F", "F">>,
       <<237, 159, 191>>>>,
     <<1, <<"\\", "u", "D", "B", "F", "F", "\\", "u", "D", "F", "F", "F">>,
       <<244, 143, 191, 191>>>>,
     <<1, <<"\\", "u", "D", "8", "0", "0", "\\", "u", "D", "C", "0", "0">>,
       <<240, 144, 128, 128>>>>,
     <<0, <<"\\", "u", "0", "0", "e", "9", "\\", "u", "2", "6", "0", "6">>,
       <<195, 169, 226, 152, 134>>>>,
     <<0, <<"\\", "u", "D", "8", "3", "4", "x", "\\", "u", "D", "D", "1", "E">>,
       <<239, 191, 189, 120, 239, 191, 189>>>>}

\* x is the string and y its bytes
SurrogateCases ==
    {Case("surrogate", s[1], s[2], s[3], DocA(Quoted(s[2]))) :
        s \in SurrogateStrings}

\* ---- strings with an escape near the end of the peek window ----
Pad(k) == [i \in 1..k |-> "a"]
\* 1 when the escapes are a pair of surrogates and 0 otherwise, the escapes,
\* and the bytes they stand for
WindowEscapes ==
    {<<0, <<"\\", "n">>, <<10>>>>,
     <<0, <<"\\", "\"">>, <<34>>>>,
     <<0, <<"\\", "u", "0", "0", "e", "9">>, <<195, 169>>>>,
     <<0, <<"\\", "u", "2", "0", "a", "c">>, <<226, 130, 172>>>>,
     <<0, <<"\\", "u", "D", "8", "3", "4", "\\", "n">>, <<239, 191, 189, 10>>>>,
     <<1, <<"\\", "u", "D", "8", "3", "4", "\\", "u", "D", "D", "1", "E">>, <<240, 157, 132, 158>>>>}
\* how many characters stand before the escapes: none, and what puts each
\* character of the escapes at the end of the window, and behind it
WindowPads == {0} \cup ((cstringPeekWidth - 12)..(cstringPeekWidth + 1))
WindowTails == {<< >>, <<"b">>}

\* x is the string and y its bytes
WindowCases ==
    {Case("window", e[1], Pad(k) \o e[2] \o t,
          OrdSeq(Pad(k)) \o e[3] \o OrdSeq(t),
          DocA(Quoted(Pad(k) \o e[2] \o t))) :
        e \in WindowEscapes, k \in WindowPads, t \in WindowTails}

\* the input ends inside the escapes of e, j characters into them
CutCasesOf(e) ==
    {Case("windowcut", j, Pad(k) \o SubSeq(e[2], 1, j), << >>,
          <<"{", "\"", "a", "\"", ":", "\"">> \o Pad(k) \o SubSeq(e[2], 1, j)) :
        k \in WindowPads, j \in 1..(Len(e[2]) - 1)}
WindowCutCases == UNION {CutCasesOf(e) : e \in WindowEscapes}

\* ---- objects that are not of extended JSON ----
\* what the first key is (1: it has no $; 2: it has a $ and is of no
\* extended form; 3: it is longer than the peek; 4: $regex with an object;
\* 5: $regex and $options, one of them with an object, the string first),
\* the key, and what follows its colon
NotExtForms ==
    {<<1, <<"b">>,
       <<"1">>>>,
     <<1, <<"b", "c", "d", "e", "f", "g", "h", "i", "j", "k", "l", "m", "n", "o", "p", "q", "r", "s", "t", "u", "v", "w", "x", "y", "z">>,
       <<"1">>>>,
     <<2, <<"$", "f", "o", "o">>,
       <<"1">>>>,
     <<2, <<"$", "o", "i", "x">>,
       <<"\"", "a", "\"">>>>,
     <<2, <<"$", "t", "y", "p", "o">>,
       <<"\"", "a", "\"">>>>,
     <<2, <<"$">>,
       <<"1">>>>,
     <<3, <<"$", "a", "a", "a", "a", "a", "a", "a", "a", "a", "a", "a", "a", "a", "a", "a", "a", "a", "a", "a", "a", "a", "a", "a">>,
       <<"1">>>>,
     <<3, <<"$", "r", "e", "g", "u", "l", "a", "r", "E", "x", "p", "r", "e", "s", "s", "i", "o", "n", "s">>,
       <<"1">>>>,
     <<4, <<"$", "r", "e", "g", "e", "x">>,
       <<"{", "}">>>>,
     <<4, <<"$", "r", "e", "g", "e", "x">>,
       <<" ", "{", "\"", "$", "r", "e", "g", "e", "x", "\"", ":", "\"", "a", "\"", ",", "\"", "$", "o", "p", "t", "i", "o", "n", "s", "\"", ":", "\"", "i", "\"", "}">>>>,
     <<5, <<"$", "o", "p", "t", "i", "o", "n", "s">>,
       <<"\"", "i", "\"", ",", "\"", "$", "r", "e", "g", "e", "x", "\"", ":", "{", "}">>>>,
     <<5, <<"$", "r", "e", "g", "e", "x">>,
       <<"\"", "a", "\"", ",", "\"", "$", "o", "p", "t", "i", "o", "n", "s", "\"", ":", "{", "}">>>>}

NotExtCases ==
    {Case("notext", f[1], f[2], f[3],
          Place(p, <<"{">> \o Quoted(f[2]) \o <<":">> \o f[3] \o <<"}">>)) :
        f \in NotExtForms, p \in {1, 4}}

Cases ==
    ArrayCases \cup ExtKeyCases \cup PairCases \cup RegexCases
        \cup LegacyBinaryCases \cup TypeAloneCases \cup OldBinaryCases
        \cup SurrogateCases \cup WindowCases \cup WindowCutCases
        \cup NotExtCases


InitUnmarshal ==
    /\ src \in Cases
    /\ input = src.text
    /\ phase = "new"
    /\ pos = 0
    /\ arrayStarted = FALSE
    /\ arrayFinished = FALSE
    /\ curDepth = 0
    /\ extJSONAllowed = FALSE
    /\ maxDepth = 0
    /\ poolOut = 0
    /\ calls = 0
    /\ returned = << >>
    /\ last = NoCall

\* the decoder is local to the call: what is kept is what the call returned
Unmarshal ==
    /\ phase = "new"
    /\ \E r \in {UnmarshalOp(input, << >>, FALSE)} :
        /\ pos' = r.pos
        /\ last' = Outcome("Unmarshal", r, << >>)
    /\ phase' = "none"
    /\ extJSONAllowed' = FALSE
    /\ UNCHANGED <<src, input, arrayStarted, arrayFinished, curDepth,
                   maxDepth, poolOut, calls, returned>>

UnmarshalExtJSON ==
    /\ phase = "new"
    /\ \E r \in {UnmarshalOp(input, << >>, TRUE)} :
        /\ pos' = r.pos
        /\ last' = Outcome("UnmarshalExtJSON", r, << >>)
    /\ phase' = "none"
    /\ extJSONAllowed' = TRUE
    /\ UNCHANGED <<src, input, arrayStarted, arrayFinished, curDepth,
                   maxDepth, poolOut, calls, returned>>

NextUnmarshal ==
    \/ Unmarshal
    \/ UnmarshalExtJSON

SpecUnmarshal == InitUnmarshal /\ [][NextUnmarshal]_vars

\* ---- the conversion of one number ----
NumberCases == IntCases \cup LiteralCases

InitNumbers ==
    /\ src \in NumberCases
    /\ input = src.text
    /\ phase = "new"
    /\ pos = 0
    /\ arrayStarted = FALSE
    /\ arrayFinished = FALSE
    /\ curDepth = 0
    /\ extJSONAllowed = FALSE
    /\ maxDepth = 0
    /\ poolOut = 0
    /\ calls = 0
    /\ returned = << >>
    /\ last = NoCall

SpecNumbers == InitNumbers /\ [][NextUnmarshal]_vars

(***************************************************************************)
(* Properties of the conversion of one document                            *)
(***************************************************************************)
\* a call of Unmarshal or UnmarshalExtJSON returned a document
Converted == last.op \in {"Unmarshal", "UnmarshalExtJSON"} /\ last.err = ""

\* the number a sequence of ASCII digits writes in base ten
RECURSIVE DecimalValue(_)
DecimalValue(ds) ==
    IF Len(ds) = 0 THEN 0
    ELSE 10 * DecimalValue(SubSeq(ds, 1, Len(ds) - 1)) + (ds[Len(ds)] - 48)

\* bytes is the decimal ASCII representation of k
IsDecimalOf(bytes, k) ==
    /\ Len(bytes) >= 1
    /\ \A i \in 1..Len(bytes) : bytes[i] \in 48..57
    /\ (Len(bytes) > 1 => bytes[1] # 48)
    /\ DecimalValue(bytes) = k

\* the keys of array elements in the output, which is that of a document
\* with one array
IdxMarks == {m \in last.marks : m.k = "idx"}

\* C11: for every JSON array of n elements, also when n is beyond the
\* precomputed key table, the k-th element key of the output array document
\* (k = 0..n-1) is the decimal ASCII representation of k followed by 0x00.
C11_ArrayKeys ==
    (Converted /\ src.kind = "array") =>
        /\ Cardinality(IdxMarks) = src.n
        /\ \A m \in IdxMarks :
              /\ last.out[m.e] = 0
              /\ IsDecimalOf(SubSeq(last.out, m.s + 1, m.e - 1),
                             Cardinality({o \in IdxMarks : o.s < m.s}))

\* an array that has more elements than the key table has keys
C11_Witness ==
    /\ Converted
    /\ src.kind = "array"
    /\ src.n > arrayKeyLen
    /\ Cardinality(IdxMarks) > arrayKeyLen

\* a call of Unmarshal or UnmarshalExtJSON was made
Called == last.op \in {"Unmarshal", "UnmarshalExtJSON"}

\* k is the first key of a document of the output: the document's length,
\* the type byte of its first element, then the bytes of k and 0x00
FirstKeyOfDocument(k) ==
    \E d \in last.marks : \E m \in last.marks :
        /\ d.k \in {"document", "scratch"}
        /\ m.k = "key"
        /\ m.s = d.s + 5
        /\ SubSeq(last.out, m.s + 1, m.e) = OrdSeq(k) \o <<0>>

\* C12: an object whose first key is an extended JSON key such as $oid is
\* converted to the specialized BSON type only when extended JSON is enabled
\* and the object is not the top-level document, nor a $scope or scratch
\* document parsed with the top sentinel; in every other case it is emitted
\* as an ordinary document 0x03 containing that key.
C12_ExtendedOnlyWhenNested ==
    (Called /\ src.kind \in {"extkey", "extkeyplain"}) =>
        /\ last.err = ""
        /\ (src.n \in {1, 4} /\ last.out[5] # bsonDocument) =>
                last.op = "UnmarshalExtJSON"
        /\ ~(last.op = "UnmarshalExtJSON" /\ src.n \in {1, 4}) =>
                /\ FirstKeyOfDocument(src.x)
                /\ src.n = 0 =>
                      SubSeq(last.out, 6, 6 + Len(src.x)) =
                          OrdSeq(src.x) \o <<0>>
                /\ src.n \in {1, 4} => last.out[5] = bsonDocument
                /\ src.n \in {2, 3} =>
                      (last.op = "UnmarshalExtJSON"
                          <=> last.out[5] = bsonCodeWithScope)

\* with extended JSON enabled, {"$oid": ...} as the scope of a code with scope
\* stays a document, and as the value of a key it becomes an ObjectID
C12_Witness ==
    /\ last.op = "UnmarshalExtJSON"
    /\ last.err = ""
    /\ src.kind = "extkey"
    /\ src.x = jsonOID
    /\ \/ src.n = 2 /\ FirstKeyOfDocument(jsonOID)
       \/ src.n = 1 /\ last.out[5] = bsonObjectID

\* the element "z" : 1 and the end of the top-level document
ElementZ == <<bsonInt32, 122, 0, 1, 0, 0, 0, 0>>

\* C13: whenever the extended-type dispatcher returns a converted value, the
\* input position is right after the closing brace of that extended JSON
\* object, for every sub-parser and every accepted key order ($scope before
\* $code too), so the keys that follow it in the enclosing object are still
\* parsed into the enclosing document.
C13_PositionAfterExtended ==
    (/\ last.op = "UnmarshalExtJSON"
     /\ src.kind = "extkey"
     /\ src.n \in {1, 4}
     /\ last.err = ""
     /\ last.out[5] # bsonDocument) =>
        /\ pos = Len(input)
        /\ src.n = 4 =>
              SubSeq(last.out, Len(last.out) - 7, Len(last.out)) = ElementZ

\* the same for every form but the one with $scope before $code
C13_ButScopeFirst ==
    (/\ last.op = "UnmarshalExtJSON"
     /\ src.kind = "extkey"
     /\ src.n \in {1, 4}
     /\ src.y # xScopeCode) =>
        /\ last.err = ""
        /\ last.out[5] # bsonDocument
        /\ pos = Len(input)
        /\ src.n = 4 =>
              SubSeq(last.out, Len(last.out) - 7, Len(last.out)) = ElementZ

\* C14: the documents of two child keys ($binary with base64 and subType,
\* $dbPointer with $ref and $id, $timestamp with t and i, $regularExpression
\* with pattern and options) do not depend on the order of the keys: the
\* document is accepted exactly when its two keys occur once each with one
\* comma between them, the output is the same bytes for both orders, and a
\* repeated, unknown, missing or extra key makes the conversion fail.
C14_EitherOrder ==
    (last.op = "UnmarshalExtJSON" /\ src.kind = "pair") =>
        /\ last.err = "" <=> src.n \in {1, 2}
        /\ last.err = "" =>
              /\ last.out = UnmarshalOp(src.x, << >>, TRUE).out
              /\ pos = Len(input)

C14_Witness ==
    /\ last.op = "UnmarshalExtJSON"
    /\ src.kind = "pair"
    /\ src.n = 2
    /\ src.y = jsonBinary
    /\ last.err = ""
    /\ last.out[5] = bsonBinary

\* the document {"a": the regular expression of the pattern and the options}
RegexDoc(pattern, options) ==
    LE32(Len(pattern) + Len(options) + 10)
        \o <<bsonRegex, Ord["a"], nullByte>> \o pattern \o <<nullByte>>
        \o options \o <<nullByte, nullByte>>

\* b holds the bytes of a in ascending order
IsSorted(b, a) ==
    /\ Len(b) = Len(a)
    /\ \A i \in 1..(Len(b) - 1) : b[i] <= b[i + 1]
    /\ \A c \in {a[i] : i \in 1..Len(a)} :
          Cardinality({i \in 1..Len(a) : a[i] = c})
              = Cardinality({i \in 1..Len(b) : b[i] = c})

OptionsWritten == SubSeq(last.out, 10, Len(last.out) - 2)

\* C15: a regular expression in the form $regularExpression and in the
\* legacy form of $regex and $options, in either order, becomes the regular
\* expression (0x0B) of the pattern as a cstring and the options, sorted in
\* ascending order, as a cstring, for every string of options made of the
\* letters i, l, m, s, u, x whatever its length (the length 1 too); the
\* conversion fails when the options hold any other character.
C15_RegexOptionsSorted ==
    (last.op = "UnmarshalExtJSON" /\ src.kind = "regex") =>
        IF \A i \in 1..Len(src.x) : Ord[src.x[i]] \in regexOptionLetters
        THEN /\ last.err = ""
             /\ last.out = RegexDoc(<<Ord["p"]>>, OptionsWritten)
             /\ IsSorted(OptionsWritten, OrdSeq(src.x))
        ELSE last.err # ""

\* the same but for the legacy form with one option
C15_ButOneOption ==
    (/\ last.op = "UnmarshalExtJSON"
     /\ src.kind = "regex"
     /\ ~(src.n > 0 /\ Len(src.x) = 1)) =>
        IF \A i \in 1..Len(src.x) : Ord[src.x[i]] \in regexOptionLetters
        THEN /\ last.err = ""
             /\ last.out = RegexDoc(<<Ord["p"]>>, OptionsWritten)
             /\ IsSorted(OptionsWritten, OrdSeq(src.x))
        ELSE last.err # ""

\* the conversion of the same legacy binary with its keys in the other order
OtherOrder ==
    UnmarshalOp(DocA(LegacyBinary(1 - src.n, src.x, src.y)), << >>, TRUE)

\* C16: the legacy binary with $binary first and the one with $type first
\* are treated alike for every base64 string and every subtype string: both
\* are rejected, or both are accepted and give the same bytes of a binary
\* element (0x05).
C16_LegacyBinaryEitherOrder ==
    (last.op = "UnmarshalExtJSON" /\ src.kind = "legacybinary") =>
        /\ last.err = "" <=> OtherOrder.err = ""
        /\ last.err = "" =>
              /\ last.out = OtherOrder.out
              /\ last.out[5] = bsonBinary

\* the same when no string holds an escape and the subtype is not empty
C16_ButEmptyAndEscapes ==
    (/\ last.op = "UnmarshalExtJSON"
     /\ src.kind = "legacybinary"
     /\ src.y # << >>
     /\ \A i \in 1..Len(src.x) : src.x[i] # "\\"
     /\ \A i \in 1..Len(src.y) : src.y[i] # "\\") =>
        /\ last.err = "" <=> OtherOrder.err = ""
        /\ last.err = "" =>
              /\ last.out = OtherOrder.out
              /\ last.out[5] = bsonBinary

\* the document {"a": {"$type": ""}}
EmptyTypeDoc ==
    LE32(25) \o <<bsonDocument, Ord["a"], nullByte>>
        \o LE32(17) \o <<bsonString>> \o OrdSeq(jsonType) \o <<nullByte>>
        \o LE32(1) \o <<nullByte, nullByte, nullByte>>

\* C17 as claimed: with extended JSON enabled, the conversion of
\* {"a":{"$type":""}} fails with an error, because the subtype string is
\* empty, and gives no document.
C17_EmptyTypeFails ==
    (/\ last.op = "UnmarshalExtJSON"
     /\ src.kind = "typealone"
     /\ src.x = << >>) => last.err # ""

\* C17: with extended JSON enabled, the conversion of {"a":{"$type":""}}
\* succeeds: the object has no key $binary, so it is written as an ordinary
\* document (0x03) that holds the key $type with the empty string.
C17_EmptyTypeIsDocument ==
    (/\ last.op = "UnmarshalExtJSON"
     /\ src.kind = "typealone"
     /\ src.x = << >>) =>
        /\ last.err = ""
        /\ last.out = EmptyTypeDoc

C17_Witness ==
    /\ last.op = "UnmarshalExtJSON"
    /\ src.kind = "typealone"
    /\ src.x = << >>
    /\ last.err = ""
    /\ \E m \in last.marks : m.k = "scratch"

\* the document {"a": the binary of subtype 2 with the payload}
OldBinaryDoc(payload) ==
    LE32(Len(payload) + 17) \o <<bsonBinary, Ord["a"], nullByte>>
        \o LE32(Len(payload) + 4) \o <<2>> \o LE32(Len(payload))
        \o payload \o <<nullByte>>

\* C18: a binary of subtype 0x02, in every form that is accepted (the
\* $binary document with its keys in either order, the legacy $binary with
\* $type in either order), is written as int32(n + 4), the byte 0x02,
\* int32(n) and the n bytes of the decoded payload, unchanged and in order,
\* n being the length of the decoded payload, 0 included.
C18_OldBinary ==
    (last.op = "UnmarshalExtJSON" /\ src.kind = "oldbinary") =>
        /\ last.err = ""
        /\ last.out = OldBinaryDoc(src.y)
        /\ pos = Len(input)

C18_Witness ==
    /\ last.op = "UnmarshalExtJSON"
    /\ src.kind = "oldbinary"
    /\ src.n = 3
    /\ Len(src.y) = 4
    /\ last.err = ""
    /\ SubSeq(last.out, 8, 16) = <<8, 0, 0, 0, 2, 4, 0, 0, 0>>

\* the document {"a": the number of the tag and the payload y}
NumberDoc(y) ==
    LE32(Len(y[2]) + 8) \o <<y[1], Ord["a"], nullByte>> \o y[2]
        \o <<nullByte>>

\* C19 as claimed: an integer literal v is written as an int32 (0x10)
\* exactly when -2^31 <= v <= 2^31 - 1, as an int64 (0x12) when v is outside
\* that range and within -2^63 .. 2^63 - 1, and as a double (0x01) when v
\* does not fit in 64 bits; the payload is v in little-endian order in each
\* case.
C19_IntegerWidth ==
    (last.op # "none" /\ src.kind = "int") =>
        /\ last.err = ""
        /\ last.out[5] = src.y[1]
        /\ src.y[2] # << >> => last.out = NumberDoc(src.y)

\* C19: an integer literal v shorter than the window of 310 bytes in which
\* the number is read with its terminator is written as an int32 (0x10)
\* exactly when -2^31 <= v <= 2^31 - 1, as an int64 (0x12) when v is outside
\* that range and within -2^63 .. 2^63 - 1, and, when v does not fit in 64
\* bits, as the double (0x01) nearest to v when that double is finite; the
\* payload is that number in little-endian order.  A literal of 310 bytes or
\* more, or beyond the range of the doubles, is rejected with a parse error.
C19_IntegerWidthInWindow ==
    (last.op # "none" /\ src.kind = "int") =>
        IF Len(src.x) >= doublePeekWidth
        THEN last.err = "Parse" /\ last.msg = "number too long"
        ELSE IF src.y[2] = << >>
        THEN last.err = "Parse" /\ last.msg = "float conversion"
        ELSE last.err = "" /\ last.out = NumberDoc(src.y)

C19_Witness ==
    /\ last.op = "Unmarshal"
    /\ src.kind = "int"
    /\ src.y[1] = bsonDouble
    /\ Len(src.x) < doublePeekWidth - 1
    /\ last.err = ""
    /\ last.out[5] = bsonDouble

\* the literal s has the form of the numbers that are accepted: one minus
\* sign at most, in front; then a digit, and a digit 0 only when it is the
\* whole integer part; no underscore; a digit after every decimal point
HasNumberForm(s) ==
    LET t == IF s[1] = "-" THEN Tail(s) ELSE s
    IN  /\ Len(t) > 0
        /\ t[1] \in Digits
        /\ t[1] = "0" => (Len(t) = 1 \/ t[2] \in {".", "e", "E"})
        /\ \A i \in 1..Len(s) : s[i] # "_"
        /\ \A i \in 1..Len(s) :
              s[i] = "." => (i < Len(s) /\ s[i + 1] \in Digits)

\* C20: every number literal that is accepted has the form: one optional
\* leading minus sign, then a first character among 0-9, a leading 0 only
\* when it is the whole integer part (a point, e, E or the end of the
\* literal follows it), no underscore, and a digit after every point; a
\* literal that breaks one of these rules is rejected with a parse error.
C20_NumberForm ==
    (last.op # "none" /\ src.kind = "literal") =>
        /\ last.err = "" => HasNumberForm(src.x)
        /\ ~HasNumberForm(src.x) => last.err = "Parse"

C20_Witness ==
    /\ last.op = "Unmarshal"
    /\ src.kind = "literal"
    /\ src.x = <<"0", ".", "7">>
    /\ last.err = ""
    /\ last.out[5] = bsonDouble

\* the document {"a": the string of the bytes}
StringDoc(bytes) ==
    LE32(Len(bytes) + 13) \o <<bsonString, Ord["a"], nullByte>>
        \o LE32(Len(bytes) + 1) \o bytes \o <<nullByte, nullByte>>

\* C21: in a string, the escape of a high surrogate (D800-DBFF) with the
\* escape of a low surrogate (DC00-DFFF) right after it is written as the 4
\* bytes of the UTF-8 encoding of the code point of the pair, and the escape
\* of a surrogate that is not in such a pair is written as U+FFFD (EF BF
\* BD), the characters after it being decoded as usual.
C21_SurrogatePairs ==
    (last.op # "none" /\ src.kind = "surrogate") =>
        /\ last.err = ""
        /\ last.out = StringDoc(src.y)

\* the same for the strings without a pair of surrogates
C21_ButPairs ==
    (last.op # "none" /\ src.kind = "surrogate" /\ src.n = 0) =>
        /\ last.err = ""
        /\ last.out = StringDoc(src.y)

(***************************************************************************)
(* Decode appending to a buffer that already holds bytes                   *)
(***************************************************************************)
\* the output buffers Decode is handed: empty, and holding bytes already
Prefixes == {<< >>, <<255>>, <<7, 0, 0, 0, 255, 0>>}

\* whole streams without white space
PrefixSources ==
    {s \in Sources :
        s.ws = << >> /\ s.trailer = << >> /\ s.sep \in {<< >>, <<",">>}}

InitPrefix ==
    /\ \E s \in PrefixSources :
          /\ src = [mode |-> s.mode, objs |-> s.objs, ws |-> s.ws,
                    sep |-> s.sep, trailer |-> s.trailer,
                    cut |-> Len(Text(s)), whole |-> TRUE]
          /\ input = Text(s)
    /\ phase = "new"
    /\ pos = 0
    /\ arrayStarted = FALSE
    /\ arrayFinished = FALSE
    /\ curDepth = 0
    /\ extJSONAllowed = FALSE
    /\ maxDepth = 0
    /\ poolOut = 0
    /\ calls = 0
    /\ returned = << >>
    /\ last = NoCall

NextPrefix ==
    \/ NewDecoder
    \/ \E b \in BOOLEAN : ExtJSON(b)
    \/ \E buf \in Prefixes : Decode(buf)

SpecPrefix == InitPrefix /\ [][NextPrefix]_vars

\* C22: a Decode call that succeeds on a buffer already holding bytes
\* returns those bytes, unchanged, followed by exactly the document the
\* same call produces on an empty buffer
C22_PrefixKept ==
    [][(last'.op = "Decode" /\ calls' = calls + 1 /\ last'.err = "") =>
            last'.out = last'.buf \o DecodeOp(Cur(<< >>)).out]_vars

\* a document with a nested container and a patched type byte was appended
\* to a buffer of six bytes
C22_Witness ==
    /\ last.op = "Decode"
    /\ last.err = ""
    /\ last.buf = <<7, 0, 0, 0, 255, 0>>
    /\ \E m \in last.marks : m.k = "array" /\ m.s > Len(last.buf) + 4
    /\ \E m \in last.marks : m.k = "scratch"

(***************************************************************************)
(* Streams that begin with the bytes of byte order marks                   *)
(***************************************************************************)
MaxPreamble == 4
BOMBytes == {"x00", "xFE", "xFF", "xEF", "xBB", "xBF"}
Preambles == UNION {[1..n -> BOMBytes] : n \in 0..MaxPreamble}
\* what follows the preamble
BOMTails ==
    {<< >>, objInt, <<"[">> \o objEmpty \o <<"]">>,
     <<"x00", "xFE", "xFF">> \o objEmpty, <<"xFE", "x00", "x00">>}

InitBOM ==
    /\ \E p \in Preambles : \E t \in BOMTails :
          /\ src = [mode |-> "bom", preamble |-> p, tail |-> t]
          /\ input = p \o t
    /\ phase = "new"
    /\ pos = 0
    /\ arrayStarted = FALSE
    /\ arrayFinished = FALSE
    /\ curDepth = 0
    /\ extJSONAllowed = FALSE
    /\ maxDepth = 0
    /\ poolOut = 0
    /\ calls = 0
    /\ returned = << >>
    /\ last = NoCall

NextBOM ==
    \/ NewDecoder
    \/ \E buf \in Bufs : Decode(buf)

SpecBOM == InitBOM /\ [][NextBOM]_vars

\* the first n bytes of the stream
First(n) == SubSeq(input, 1, Min(n, Len(input)))
StartsWithUTF16 == First(2) \in {utf16BEBOM, utf16LEBOM}
StartsWithUTF32 == First(4) \in {utf32BEBOM, utf32LEBOM}
\* what handleBOM leaves of the stream as NewDecoder found it
AfterBOM == handleBOM(NewSt(input, 0, << >>))

\* C23: NewDecoder fails with the unsupported-BOM error exactly when the
\* first 2 bytes of the stream are a UTF-16 mark or its first 4 bytes a
\* UTF-32 mark; a UTF-8 mark in the first 3 bytes is discarded, 3 bytes and
\* no more, and reading goes on behind it; of a stream too short for a mark
\* to be peeked no byte is consumed
C23_BOMGate ==
    last.op = "NewDecoder" =>
        /\ last.err = "BOM" <=> (StartsWithUTF16 \/ StartsWithUTF32)
        /\ First(3) = utf8BOM => (AfterBOM.err = "" /\ AfterBOM.pos = 3)
        /\ (Len(input) < 2 \/ (Len(input) < 3 /\ ~StartsWithUTF16)) =>
                (AfterBOM.err = "" /\ AfterBOM.pos = 0)

\* the same of the streams in which no UTF-32 mark follows a UTF-8 mark
C23_ButMarkAfterMark ==
    (last.op = "NewDecoder"
        /\ ~(First(3) = utf8BOM
                /\ SubSeq(input, 4, Min(7, Len(input)))
                        \in {utf32BEBOM, utf32LEBOM})) =>
        /\ last.err = "BOM" <=> (StartsWithUTF16 \/ StartsWithUTF32)
        /\ First(3) = utf8BOM => (AfterBOM.err = "" /\ AfterBOM.pos = 3)
        /\ (Len(input) < 2 \/ (Len(input) < 3 /\ ~StartsWithUTF16)) =>
                (AfterBOM.err = "" /\ AfterBOM.pos = 0)

(***************************************************************************)
(* The error values                                                        *)
(***************************************************************************)
\* the dynamic types of an error value and of the errors it wraps, outermost
\* first: parseError and the conversions build theirs with fmt.Errorf
\* without %w, newReadError with %w around the error of the reader, and the
\* depth and byte order mark errors are made by errors.New
ErrorChain(kind) ==
    IF kind = ""
    THEN << >>
    ELSE IF kind = "UnexpectedEOF"
    THEN <<"*fmt.wrapError", "*errors.errorString">>
    ELSE <<"*errors.errorString">>

\* fmt.Errorf("wrapped: %w", err)
Wrap(chain) == <<"*fmt.wrapError">> \o chain
\* errors.As(err, &target) for a target of the pointer type t
As(chain, t) == \E i \in DOMAIN chain : chain[i] = t

\* C24: a parse failure returned by Decode is an error of the type
\* ParseError, found by errors.As in the error and in the error wrapped by
\* the caller, and it is neither the unexpected end of input nor the
\* unsupported byte order mark
C24_ParseErrorKind ==
    (last.op = "Decode" /\ last.err = "Parse") =>
        /\ As(ErrorChain(last.err), "*jibby.ParseError")
        /\ As(Wrap(ErrorChain(last.err)), "*jibby.ParseError")
        /\ last.err \notin {"UnexpectedEOF", "BOM"}

\* a parse failure is told from the other failures by its message only
C24_ButByMessage ==
    (last.op = "Decode" /\ last.err = "Parse") =>
        /\ ~As(Wrap(ErrorChain(last.err)), "*jibby.ParseError")
        /\ last.err \notin {"UnexpectedEOF", "BOM"}

(***************************************************************************)
(* The depth counter                                                       *)
(***************************************************************************)
\* C25: during a Decode call, whatever calls came before it, the depth
\* counter is never above the maximum depth of the decoder
C25_DepthWithinMax ==
    [][calls' = calls + 1 => last'.maxSeen <= maxDepth]_vars

\* a call that finds the counter at 0 and does not fail for the depth keeps
\* the counter within the maximum, and one that fails for the depth has it
\* at the maximum plus 1
C25_ButFromZero ==
    [][(calls' = calls + 1 /\ curDepth = 0) =>
            IF last'.err = "MaxDepth" THEN last'.maxSeen = maxDepth + 1
            ELSE last'.maxSeen <= maxDepth]_vars

C27_WindowIndependent ==
    /\ (last.op # "none" /\ src.kind = "window") =>
            (last.err = "" /\ last.out = StringDoc(src.y))
    /\ (last.op # "none" /\ src.kind = "windowcut") =>
            last.err = "UnexpectedEOF"

\* the same of the strings without a pair of surrogates
C27_ButPairs ==
    /\ (last.op # "none" /\ src.kind = "window" /\ src.n = 0) =>
            (last.err = "" /\ last.out = StringDoc(src.y))
    /\ (last.op # "none" /\ src.kind = "windowcut") =>
            last.err = "UnexpectedEOF"

\* the characters that stand before the first escape of s
BeforeEscape(s) ==
    (CHOOSE i \in DOMAIN s :
        s[i] = "\\" /\ \A j \in 1..(i - 1) : s[j] # "\\") - 1

\* a pair of surrogates is written as the same bytes at every offset, two
\* replacement characters
C27_PairsAlike ==
    (last.op # "none" /\ src.kind = "window" /\ src.n = 1) =>
        /\ last.err = ""
        /\ last.out =
            StringDoc(SubSeq(src.y, 1, BeforeEscape(src.x))
                \o <<239, 191, 189, 239, 191, 189>>
                \o SubSeq(src.y, BeforeEscape(src.x) + 5, Len(src.y)))

\* C28: each time handleExtJSON returned no buffer and no error it had
\* consumed no byte of the input and left every byte of the output, the
\* type byte of the parent among them, as it was
C28_NotExtendedTouchesNothing ==
    last.op # "none" => \A n \in last.notExt : n.used = 0 /\ n.kept

\* $regex before an object: handleExtJSON returned without a buffer and the
\* object was converted as a document
C28_Witness ==
    /\ last.op = "UnmarshalExtJSON"
    /\ last.err = ""
    /\ src.kind = "notext"
    /\ src.n = 4
    /\ last.notExt # {}

(***************************************************************************)
(* The end of the top-level array                                          *)
(***************************************************************************)
\* the last call is the one that read the closing bracket of the array
ReadClosing == last.op = "Decode" /\ arrayFinished /\ ~last.finishedBefore
\* the last byte before offset p that is not white space, "" when none is
RECURSIVE ByteBefore(_)
ByteBefore(p) ==
    IF p < 1 THEN ""
    ELSE IF input[p] \in WS THEN ByteBefore(p - 1)
    ELSE input[p]

\* the stream without its white space
NotWS(c) == c \notin WS
Bytes == SelectSeq(input, NotWS)
\* the stream is the empty array, whatever follows it
EmptyArray == Len(Bytes) >= 2 /\ Bytes[1] = "[" /\ Bytes[2] = "]"
\* a call before the last one failed
FailedBefore == Len(returned) < calls - (IF last.err = "" THEN 0 ELSE 1)

FirstCallWithExt(objs) ==
    /\ phase = "ready"
    /\ calls = 0
    /\ calls' = 1
    /\ extJSONAllowed
    /\ src.mode = "stream"
    /\ src.whole
    /\ Len(src.objs) >= 1
    /\ src.objs[1] \in objs

\* C30: with extended JSON every object and array counts 1 to the depth
\* while it is converted, one that goes through the scratch buffer of $type,
\* $regex and $options too, so that an object whose containers nest n deep
\* reaches the depth n and is accepted under the maximum depth n
C30_OneLevelEach ==
    [][FirstCallWithExt(Objs) =>
            (Nesting(src.objs[1]) <= maxDepth =>
                (last'.err = "" /\ last'.maxSeen = Nesting(src.objs[1])))]_vars

\* the objects that do not go through the scratch buffer are accepted under
\* the maximum depth n when they nest n deep, and count no level twice
C30_ButScratch ==
    [][FirstCallWithExt(Objs \ {objTypeDoc, objRegex}) =>
            (Nesting(src.objs[1]) <= maxDepth =>
                (last'.err = "" /\ last'.maxSeen <= Nesting(src.objs[1])))]_vars
====
